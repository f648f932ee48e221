---------------------- MODULE NotificationOutboxProofs ----------------------
(***************************************************************************)
(* Proofs about the Notification Center's outbox, for any number of        *)
(* dispatchers, rows, attempts and troubles, and for signals whose         *)
(* severity may fall or not.                                               *)
(*                                                                         *)
(* A row changes in few ways, whatever RPC changes it: it is claimed, its  *)
(* claim ends, or it is taken out of delivery or put back.  The invariant  *)
(* speaks of rows and of the dispatchers that hold them, or have looked at *)
(* them.                                                                   *)
(***************************************************************************)
EXTENDS NotificationOutbox, SequenceTheorems, FiniteSetTheorems, TLAPS

USE OutboxAssumption DEF OutboxAssumption

-----------------------------------------------------------------------------
(* The invariant *)

Statuses == Undelivered \cup {"suppressed", "sent", "failed"}
Reason == {None, "channel_disabled", "maintenance", "signal_recovered_before_delivery",
           "signal_deescalated_before_delivery", "host_disabled", "backup_policy_disabled",
           "superseded_by_new_incident", "recovered_before_first_delivery", "delivery_gate_failed",
           "claim_mismatch"}
Tokens == Dispatcher \cup {None, "lost"}

RowType == [transition : Alert \cup {"recovered"}, severity : 0..2, occurred : Nat, status : Statuses,
            reason : Reason, attempts : Nat, token : Tokens, due : BOOLEAN, since : Nat,
            released : BOOLEAN, recalled : BOOLEAN]

TypesInv ==
  /\ signal \in [exists : BOOLEAN, active : BOOLEAN, severity : 1..2, openedAt : Nat, lastSeen : Nat]
  /\ signal.exists => signal.openedAt <= signal.lastSeen
  /\ signal.active => signal.exists
  /\ rows \in Seq(RowType) /\ Len(rows) <= MaxRows
  /\ disp \in [Dispatcher -> [pc : {"idle", "gate", "post", "suppress", "complete"}, row : Nat,
                              reason : Reason, ok : BOOLEAN]]
  /\ posted \in Seq(Row)
  /\ disturbed \in [1..MaxRows -> Nat]

Accepted(r) == \E i \in 1..Len(posted) : posted[i] = r

\* Whose message may come out of order.
Excused(row) == row.recalled \/ row.released

\* A row is claimed while it is being sent, and a dispatcher that is about to post has its claim,
\* or the claim was taken from it.
ClaimsInv ==
  /\ \A r \in Row : /\ rows[r].token = None <=> rows[r].status # "sending"
                    /\ rows[r].status = "sent" => Accepted(r)
                    /\ rows[r].status = "sending" \/ Accepted(r) => rows[r].attempts > 0
                    /\ rows[r].token \in Dispatcher =>
                         disp[rows[r].token].pc # "idle" /\ disp[rows[r].token].row = r
  /\ \A d \in Dispatcher :
       disp[d].pc # "idle" => /\ disp[d].row \in Row /\ rows[disp[d].row].attempts > 0
                              /\ disp[d].pc = "post" => Mine(d) \/ Excused(rows[disp[d].row])
                              /\ disp[d].pc = "complete" /\ disp[d].ok => Accepted(disp[d].row)

\* Who may still post a row without its claim; whether the one post it is due is made.
Strays(r) == {d \in Dispatcher : disp[d].pc = "post" /\ disp[d].row = r /\ ~Mine(d)}
Made(r) == \/ rows[r].status = "sent"
           \/ \E d \in Dispatcher : disp[d].pc = "complete" /\ disp[d].ok /\ disp[d].row = r /\ Mine(d)

PostsInv ==
  \A r \in Row : Posts(r) + Cardinality(Strays(r)) <= disturbed[r] + (IF Made(r) THEN 1 ELSE 0)

\* A recovery that is to be delivered belongs to the signal's episode or to an earlier one.
RecoveryInv ==
  /\ \A r \in Row : rows[r].transition = "recovered" /\ rows[r].status \in Undelivered =>
       signal.exists /\ rows[r].since <= signal.openedAt
  /\ \A d \in Dispatcher : disp[d].pc = "post" /\ rows[disp[d].row].transition = "recovered" =>
       \E i \in 1..Len(posted) : Tells(rows[posted[i]], rows[disp[d].row])
  /\ RecoveryFollowsAlert

\* Rows that were not put back are in the order of their times, and wait for the earlier ones.
OrderInv ==
  /\ \A r \in Row : rows[r].status \in Undelivered /\ ~rows[r].released =>
       /\ signal.exists /\ rows[r].occurred <= signal.lastSeen
       /\ \A s \in Row : r < s => /\ rows[r].occurred <= rows[s].occurred
                                  /\ rows[s].attempts > 0 => rows[r].recalled
  /\ PostedInOrder

Inv == TypesInv /\ ClaimsInv /\ PostsInv /\ RecoveryInv /\ OrderInv

\* A claim puts back only alerts.
LooksInv ==
  /\ looked \in [Dispatcher -> [at : {None, "mute", "release"}, rows : SUBSET Nat, reason : Reason]]
  /\ \A d \in Dispatcher : looked[d].at = "release" =>
       \A r \in looked[d].rows : r \in Row /\ IsAlert(rows[r])

-----------------------------------------------------------------------------
(* How rows change *)

Says(a, b) ==
  /\ b.transition = a.transition /\ b.occurred = a.occurred /\ b.since = a.since
  /\ a.released => b.released
  /\ a.recalled => b.recalled
Kept(a, b) == Says(a, b) /\ b.attempts = a.attempts

\* Out of delivery, by whatever reason.
TakenOut(a, b) ==
  /\ Kept(a, b)
  /\ b.status = "suppressed" /\ b.token = None /\ (b.released <=> a.released)
  /\ a.status = "sending" => b.recalled

\* Rows are never removed, and an alert stays one.
RowsStay == Row \subseteq Row' /\ \A r \in Row : IsAlert(rows[r]) => IsAlert(rows'[r])

Claimable(row) == row.token = None <=> row.status # "sending"

\* What a claim makes of a row before it picks one: what comes back to delivery is an alert that
\* counts as released, and what was sent or claimed is only touched if the claim is to blame.
Prep(a, b, blamed) ==
  /\ Kept(a, b)
  /\ \/ b = a
     \/ /\ a.status = "sent" => blamed
        /\ a.token \in Dispatcher => blamed /\ Excused(b)
        /\ b.status \in {"pending", "retry", "suppressed"} /\ b.token = None
        /\ b.status \in Undelivered => \/ a.status \in Undelivered
                                       \/ b.released /\ IsAlert(b)

PrepAll(rs, ss, T) ==
  /\ ss \in Seq(RowType) /\ Len(ss) = Len(rs)
  /\ \A r \in 1..Len(rs) : Claimable(ss[r]) /\ Prep(rs[r], ss[r], r \in T)

Good(rs) == rs \in Seq(RowType) /\ \A r \in 1..Len(rs) : Claimable(rs[r])

LEMMA SeqOfRows ==
  ASSUME NEW rs \in Seq(RowType), NEW f, DOMAIN f = DOMAIN rs, f = [r \in DOMAIN rs |-> f[r]],
         \A r \in 1..Len(rs) : f[r] \in RowType
  PROVE  f \in Seq(RowType) /\ Len(f) = Len(rs) /\ DOMAIN f = 1..Len(rs)
<1>1. DOMAIN rs = 1..Len(rs) /\ Len(rs) \in Nat
  BY LenProperties
<1>2. f \in [1..Len(rs) -> RowType]
  BY <1>1
<1>3. QED BY <1>1, <1>2, SeqDef, LenProperties

LEMMA FunIsSeq ==
  ASSUME NEW n \in Nat, NEW f \in [1..n -> RowType]
  PROVE  f \in Seq(RowType) /\ Len(f) = n /\ DOMAIN f = 1..n
BY SeqDef, LenProperties

LEMMA SuppressedRow ==
  ASSUME NEW a \in RowType, NEW reason \in Reason, NEW b,
         b = [a EXCEPT !.status = "suppressed", !.reason = reason, !.token = None, !.due = TRUE,
                       !.recalled = @ \/ a.status = "sending"]
  PROVE  b \in RowType /\ TakenOut(a, b) /\ Claimable(b)
<1>1. /\ b.transition = a.transition /\ b.occurred = a.occurred /\ b.since = a.since
      /\ b.attempts = a.attempts /\ b.released = a.released /\ b.status = "suppressed" /\ b.token = None
      /\ b.recalled = (a.recalled \/ a.status = "sending")
  BY DEF RowType
<1>2. b \in RowType
  BY DEF RowType, Statuses, Tokens
<1>3. TakenOut(a, b) /\ Claimable(b)
  BY <1>1 DEF TakenOut, Kept, Says, Claimable
<1>4. QED BY <1>2, <1>3

LEMMA SuppressRows ==
  ASSUME NEW rs \in Seq(RowType), NEW S, NEW reason \in Reason, NEW ss, ss = Suppress(rs, S, reason)
  PROVE  /\ ss \in Seq(RowType) /\ Len(ss) = Len(rs) /\ DOMAIN ss = 1..Len(rs)
         /\ \A r \in 1..Len(rs) : /\ r \in S => TakenOut(rs[r], ss[r]) /\ Claimable(ss[r])
                                  /\ r \notin S => ss[r] = rs[r]
<1>1. DOMAIN rs = 1..Len(rs) /\ Len(rs) \in Nat
  BY LenProperties
<1>2. ss = [r \in DOMAIN rs |-> ss[r]] /\ DOMAIN ss = DOMAIN rs
  BY DEF Suppress
<1>3. ASSUME NEW r \in 1..Len(rs)
      PROVE  /\ ss[r] \in RowType
             /\ r \in S => TakenOut(rs[r], ss[r]) /\ Claimable(ss[r])
             /\ r \notin S => ss[r] = rs[r]
  <2>1. rs[r] \in RowType
    BY <1>1
  <2>2. CASE r \in S
    <3>1. ss[r] = [rs[r] EXCEPT !.status = "suppressed", !.reason = reason, !.token = None,
                                !.due = TRUE, !.recalled = @ \/ rs[r].status = "sending"]
      BY <1>1, <2>2 DEF Suppress
    <3>2. ss[r] \in RowType /\ TakenOut(rs[r], ss[r]) /\ Claimable(ss[r])
      BY ONLY <2>1, <3>1, SuppressedRow
    <3>3. QED BY <2>2, <3>2
  <2>3. CASE r \notin S
    BY <1>1, <2>1, <2>3 DEF Suppress
  <2>4. QED BY <2>2, <2>3
<1>4. \A r \in 1..Len(rs) : ss[r] \in RowType
  BY <1>3
<1>5. QED BY <1>2, <1>3, <1>4, SeqOfRows

LEMMA Reasons == SuppressionReason \in Reason
BY DEF SuppressionReason, Reason

-----------------------------------------------------------------------------
(* What the statements of a claim do before it picks a row *)

\* Out of delivery what waits for it, or what the claim is to blame for.
LEMMA WaitingOut ==
  ASSUME NEW rs, Good(rs), NEW S, NEW T, NEW reason \in Reason, NEW ss, ss = Suppress(rs, S, reason),
         \A r \in S : r \in 1..Len(rs) /\ rs[r].status \in {"sending", "sent"} => r \in T
  PROVE  PrepAll(rs, ss, T)
<1>1. /\ ss \in Seq(RowType) /\ Len(ss) = Len(rs)
      /\ \A r \in 1..Len(rs) : /\ r \in S => TakenOut(rs[r], ss[r]) /\ Claimable(ss[r])
                               /\ r \notin S => ss[r] = rs[r]
  <2>1. rs \in Seq(RowType)
    BY DEF Good
  <2>2. QED BY <2>1, SuppressRows
<1>2. ASSUME NEW r \in 1..Len(rs)
      PROVE  Claimable(ss[r]) /\ Prep(rs[r], ss[r], r \in T)
  <2>1. CASE r \in S
    <3>1. TakenOut(rs[r], ss[r]) /\ Claimable(ss[r]) /\ Claimable(rs[r])
      BY <1>1, <2>1 DEF Good
    <3>2. rs[r].status \in {"sending", "sent"} => r \in T
      BY <2>1
    <3>3. rs[r].token \in Dispatcher => rs[r].status = "sending"
      BY <3>1 DEF Claimable
    <3>4. QED BY <3>1, <3>2, <3>3 DEF TakenOut, Prep, Undelivered, Waiting, Excused
  <2>2. CASE r \notin S
    BY <1>1, <2>2 DEF Good, Prep, Kept, Says
  <2>3. QED BY <2>1, <2>2
<1>3. QED BY <1>1, <1>2 DEF PrepAll

LEMMA PrepGood ==
  ASSUME NEW rs, Good(rs), NEW ss, NEW T, PrepAll(rs, ss, T)
  PROVE  Good(ss)
BY DEF Good, PrepAll

LEMMA PrepTwice ==
  ASSUME NEW rs, NEW ss, NEW ts, NEW T, PrepAll(rs, ss, T), PrepAll(ss, ts, T), Good(rs)
  PROVE  PrepAll(rs, ts, T)
<1>1. ASSUME NEW r \in 1..Len(rs)
      PROVE  Claimable(ts[r]) /\ Prep(rs[r], ts[r], r \in T)
  <2>1. Prep(rs[r], ss[r], r \in T) /\ Prep(ss[r], ts[r], r \in T) /\ Claimable(ts[r])
    BY DEF PrepAll
  <2> DEFINE a == rs[r]  b == ss[r]  c == ts[r]
  <2>2. Kept(a, c)
    BY <2>1 DEF Prep, Kept, Says
  <2>3. CASE b = a \/ c = b
    BY <2>1, <2>3
  <2>4. CASE b # a /\ c # b
    <3>1. /\ a.status = "sent" => r \in T
          /\ a.token \in Dispatcher => r \in T /\ Excused(b)
          /\ b.status \in Undelivered => a.status \in Undelivered \/ (b.released /\ IsAlert(b))
      BY <2>1, <2>4 DEF Prep
    <3>2. /\ c.status \in {"pending", "retry", "suppressed"} /\ c.token = None
          /\ c.status \in Undelivered => b.status \in Undelivered \/ (c.released /\ IsAlert(c))
      BY <2>1, <2>4 DEF Prep
    <3>3. c.transition = b.transition /\ (b.released => c.released) /\ (b.recalled => c.recalled)
      BY <2>1 DEF Prep, Kept, Says
    <3>4. c.status \in Undelivered => a.status \in Undelivered \/ (c.released /\ IsAlert(c))
      BY <3>1, <3>2, <3>3 DEF IsAlert
    <3>5. a.token \in Dispatcher => r \in T /\ Excused(c)
      BY <3>1, <3>3 DEF Excused
    <3>6. Prep(a, c, r \in T)
      BY <2>2, <3>1, <3>2, <3>4, <3>5 DEF Prep
    <3>7. QED BY <2>1, <3>6
  <2>5. QED BY <2>1, <2>3, <2>4
<1>2. QED BY <1>1 DEF PrepAll

LEMMA PrepNone ==
  ASSUME NEW rs, Good(rs), NEW T
  PROVE  PrepAll(rs, rs, T)
BY DEF Good, PrepAll, Prep, Kept, Says

LEMMA TimedOutPrep ==
  ASSUME Good(rows)
  PROVE  PrepAll(rows, TimedOut(rows), Overtaken)
<1> DEFINE ss == TimedOut(rows)
<1>1. rows \in Seq(RowType) /\ DOMAIN rows = 1..Len(rows)
  BY LenProperties DEF Good
<1>2. ss = [r \in DOMAIN rows |-> ss[r]] /\ DOMAIN ss = DOMAIN rows
  BY DEF TimedOut
<1>3. ASSUME NEW r \in 1..Len(rows)
      PROVE  ss[r] \in RowType /\ Claimable(ss[r]) /\ Prep(rows[r], ss[r], r \in Overtaken)
  <2>1. rows[r] \in RowType /\ Claimable(rows[r])
    BY <1>1 DEF Good
  <2>2. CASE rows[r].status = "sending" /\ rows[r].due
    <3>1. ss[r] = [rows[r] EXCEPT !.status = "retry", !.token = None,
                                  !.recalled = @ \/ rows[r].token \in Dispatcher]
      BY <1>1, <2>2 DEF TimedOut
    <3> HIDE DEF ss
    <3>2. /\ ss[r] \in RowType /\ ss[r].status = "retry" /\ ss[r].token = None
          /\ ss[r].recalled = (rows[r].recalled \/ rows[r].token \in Dispatcher)
      BY <2>1, <3>1 DEF RowType, Statuses, Undelivered, Waiting, Tokens
    <3>3. Kept(rows[r], ss[r])
      BY <2>1, <3>1 DEF RowType, Kept, Says
    <3>4. rows[r].token \in Dispatcher => r \in Overtaken /\ Excused(ss[r])
      BY <1>1, <2>2, <3>2 DEF Overtaken, InStatus, Excused
    <3>5. QED BY <2>2, <3>2, <3>3, <3>4 DEF Prep, Claimable, Undelivered, Waiting
  <2>3. CASE ~(rows[r].status = "sending" /\ rows[r].due)
    BY <1>1, <2>1, <2>3 DEF TimedOut, Prep, Kept, Says
  <2>4. QED BY <2>2, <2>3
<1> HIDE DEF ss
<1>4. ss \in Seq(RowType) /\ Len(ss) = Len(rows)
  BY <1>1, <1>2, <1>3, SeqOfRows
<1>5. QED BY <1>3, <1>4 DEF PrepAll, ss

LEMMA MutedPrep ==
  ASSUME NEW rs, Good(rs), NEW T
  PROVE  PrepAll(rs, Muted(rs), T)
<1>1. CASE SuppressionReason = None
  BY <1>1, PrepNone DEF Muted
<1>2. CASE SuppressionReason # None
  <2>1. Muted(rs) = Suppress(rs, InStatus(rs, Waiting), SuppressionReason)
    BY <1>2 DEF Muted
  <2>2. \A r \in InStatus(rs, Waiting) : rs[r].status \notin {"sending", "sent"}
    BY DEF InStatus, Waiting
  <2>3. QED BY <2>1, <2>2, WaitingOut, Reasons
<1>3. QED BY <1>1, <1>2

LEMMA OldAlertsPrep ==
  ASSUME NEW rs, Good(rs), NEW T
  PROVE  PrepAll(rs, WithoutOldAlerts(rs), T)
<1> DEFINE S == {r \in InStatus(rs, Waiting) : IsAlert(rs[r]) /\ ~OfCurrentEpisode(rs[r])}
<1>1. WithoutOldAlerts(rs) = Suppress(rs, S, "signal_recovered_before_delivery")
  BY DEF WithoutOldAlerts
<1>2. \A r \in S : rs[r].status \notin {"sending", "sent"}
  BY DEF InStatus, Waiting
<1>3. "signal_recovered_before_delivery" \in Reason
  BY DEF Reason
<1> HIDE DEF S
<1>4. QED BY <1>1, <1>2, <1>3, WaitingOut

LEMMA LoneRecoveriesPrep ==
  ASSUME NEW rs, Good(rs), NEW T
  PROVE  PrepAll(rs, WithoutLoneRecoveries(rs), T)
<1> DEFINE lone == {r \in InStatus(rs, Waiting) :
                     rs[r].transition = "recovered" /\ LoneRecovery(rs, rs[r])}
           superseded == {r \in lone : signal.exists /\ signal.active
                                         /\ rs[r].occurred < signal.openedAt}
           ss == Suppress(rs, superseded, "superseded_by_new_incident")
           ts == Suppress(ss, lone \ superseded, "recovered_before_first_delivery")
<1>1. WithoutLoneRecoveries(rs) = ts
  BY DEF WithoutLoneRecoveries
<1>2. \A r \in lone : r \in DOMAIN rs /\ rs[r].status \notin {"sending", "sent"}
  BY DEF InStatus, Waiting
<1>3. superseded \subseteq lone
  OBVIOUS
<1>4. "superseded_by_new_incident" \in Reason /\ "recovered_before_first_delivery" \in Reason
  BY DEF Reason
<1>5. DOMAIN rs = 1..Len(rs)
  BY LenProperties DEF Good
<1>6. \A r \in lone \ superseded : ss[r] = rs[r]
  BY <1>2 DEF Suppress
<1> HIDE DEF lone, superseded
<1>7. PrepAll(rs, ss, T)
  BY <1>2, <1>3, <1>4, WaitingOut
<1>8. Good(ss)
  BY <1>7, PrepGood
<1>9. \A r \in lone \ superseded : ss[r].status \notin {"sending", "sent"}
  BY <1>2, <1>6
<1> HIDE DEF ss
<1>10. PrepAll(ss, ts, T)
  BY <1>4, <1>8, <1>9, WaitingOut
<1>11. QED BY <1>1, <1>7, <1>10, PrepTwice

LEMMA FreedPrep ==
  ASSUME NEW rs, Good(rs), NEW S, NEW T,
         \A r \in S : r \in 1..Len(rs) =>
           IsAlert(rs[r]) /\ (rs[r].status \in {"sending", "sent"} => r \in T)
  PROVE  PrepAll(rs, Freed(rs, S), T)
<1> DEFINE ss == Freed(rs, S)
<1>1. rs \in Seq(RowType) /\ DOMAIN rs = 1..Len(rs)
  BY LenProperties DEF Good
<1>2. ss = [r \in DOMAIN rs |-> ss[r]] /\ DOMAIN ss = DOMAIN rs
  BY DEF Freed
<1>3. ASSUME NEW r \in 1..Len(rs)
      PROVE  ss[r] \in RowType /\ Claimable(ss[r]) /\ Prep(rs[r], ss[r], r \in T)
  <2>1. rs[r] \in RowType /\ Claimable(rs[r])
    BY <1>1 DEF Good
  <2>2. CASE r \in S
    <3>1. ss[r] = [rs[r] EXCEPT !.status = "pending", !.reason = None, !.token = None, !.due = TRUE,
                                !.released = TRUE]
      BY <1>1, <2>2 DEF Freed
    <3>2. IsAlert(rs[r]) /\ (rs[r].status \in {"sending", "sent"} => r \in T)
      BY <2>2
    <3> HIDE DEF ss
    <3>3. /\ ss[r] \in RowType /\ ss[r].status = "pending" /\ ss[r].token = None
          /\ ss[r].released /\ ss[r].transition = rs[r].transition
      BY <2>1, <3>1 DEF RowType, Statuses, Undelivered, Waiting, Reason, Tokens
    <3>4. Kept(rs[r], ss[r])
      BY <2>1, <3>1 DEF RowType, Kept, Says
    <3>5. rs[r].token \in Dispatcher => rs[r].status = "sending"
      BY <2>1 DEF Claimable
    <3>6. QED BY <3>2, <3>3, <3>4, <3>5 DEF Prep, Claimable, IsAlert, Excused
  <2>3. CASE r \notin S
    BY <1>1, <2>1, <2>3 DEF Freed, Prep, Kept, Says
  <2>4. QED BY <2>2, <2>3
<1> HIDE DEF ss
<1>4. ss \in Seq(RowType) /\ Len(ss) = Len(rs)
  BY <1>1, <1>2, <1>3, SeqOfRows
<1>5. QED BY <1>3, <1>4 DEF PrepAll, ss

LEMMA ReleasedPrep ==
  ASSUME NEW rs, Good(rs), NEW T
  PROVE  PrepAll(rs, Released(rs), T)
<1>1. \A r \in Releasable(rs) : IsAlert(rs[r]) /\ rs[r].status = "suppressed"
  BY DEF Releasable, InStatus
<1>2. PrepAll(rs, Freed(rs, Releasable(rs)), T)
  BY <1>1, FreedPrep
<1>3. QED BY <1>2, PrepNone DEF Released

\* The first four statements.
LEMMA ClearedRows ==
  ASSUME Good(rows), LooksInv, NEW d \in Dispatcher, looked[d].at # "release"
  PROVE  PrepAll(rows, Cleared(d), Forgotten(d))
<1> DEFINE T == Forgotten(d)
           x == TimedOut(rows)
           a == IF looked[d].at = "mute" THEN Suppress(rows, looked[d].rows, looked[d].reason) ELSE Muted(x)
           b == WithoutOldAlerts(a)  c == WithoutLoneRecoveries(b)
<1>1. Cleared(d) = c
  BY DEF Cleared, Then
<1>2. PrepAll(rows, a, T) /\ Good(a)
  <2>1. CASE looked[d].at = "mute"
    <3>1. T = looked[d].rows \cap InStatus(rows, {"sending", "sent"})
      BY <2>1 DEF Forgotten, None
    <3>2. \A r \in looked[d].rows : r \in 1..Len(rows) /\ rows[r].status \in {"sending", "sent"} => r \in T
      BY <3>1, LenProperties DEF InStatus, Good
    <3>3. looked[d].reason \in Reason
      BY DEF LooksInv
    <3>4. a = Suppress(rows, looked[d].rows, looked[d].reason)
      BY <2>1
    <3> HIDE DEF T, a
    <3>5. PrepAll(rows, a, T)
      BY <3>2, <3>3, <3>4, WaitingOut
    <3>6. QED BY <3>5, PrepGood
  <2>2. CASE looked[d].at # "mute"
    <3>1. T = Overtaken
      BY <2>2 DEF Forgotten, LooksInv
    <3>2. PrepAll(rows, x, T) /\ Good(x)
      BY <3>1, TimedOutPrep, PrepGood
    <3>3. a = Muted(x)
      BY <2>2
    <3> HIDE DEF T, a, x
    <3>4. PrepAll(x, a, T)
      BY <3>2, <3>3, MutedPrep
    <3>5. QED BY <3>2, <3>4, PrepTwice, PrepGood
  <2>3. QED BY <2>1, <2>2
<1> HIDE DEF T, a
<1>3. PrepAll(a, b, T) /\ Good(b)
  BY <1>2, OldAlertsPrep, PrepGood
<1>4. PrepAll(b, c, T)
  BY <1>3, LoneRecoveriesPrep
<1> HIDE DEF b, c
<1>5. PrepAll(rows, b, T)
  BY <1>2, <1>3, PrepTwice
<1>6. QED BY <1>1, <1>4, <1>5, PrepTwice DEF T

\* What is picked from has gone through all of them.
LEMMA PreparedRows ==
  ASSUME Good(rows), LooksInv, NEW d \in Dispatcher
  PROVE  PrepAll(rows, Prepared(d), Forgotten(d))
<1>1. CASE looked[d].at = "release"
  <2>1. Prepared(d) = Freed(rows, looked[d].rows)
    BY <1>1 DEF Prepared
  <2>2. Forgotten(d) = looked[d].rows \cap InStatus(rows, {"sending", "sent"})
    BY <1>1 DEF Forgotten, None
  <2>3. ASSUME NEW r \in looked[d].rows, r \in 1..Len(rows)
        PROVE  IsAlert(rows[r]) /\ (rows[r].status \in {"sending", "sent"} => r \in Forgotten(d))
    <3>1. IsAlert(rows[r])
      BY <1>1, <2>3 DEF LooksInv
    <3>2. r \in DOMAIN rows
      BY <2>3, LenProperties DEF Good
    <3>3. QED BY <2>2, <2>3, <3>1, <3>2 DEF InStatus
  <2>4. QED BY <2>1, <2>3, FreedPrep
<1>2. CASE looked[d].at # "release"
  <2> DEFINE c == Cleared(d)
  <2>1. Prepared(d) = Released(c)
    BY <1>2 DEF Prepared, Then
  <2>2. PrepAll(rows, c, Forgotten(d)) /\ Good(c)
    BY <1>2, ClearedRows, PrepGood
  <2> HIDE DEF c
  <2>3. PrepAll(c, Released(c), Forgotten(d))
    BY <2>2, ReleasedPrep
  <2>4. QED BY <2>1, <2>2, <2>3, PrepTwice
<1>3. QED BY <1>1, <1>2

-----------------------------------------------------------------------------
(* Counting *)

LEMMA SetsBut ==
  ASSUME NEW A \in SUBSET Dispatcher, NEW B \in SUBSET Dispatcher, NEW d, A \ {d} = B \ {d}
  PROVE  /\ Cardinality(A) \in Nat /\ Cardinality(B) \in Nat
         /\ (d \in A <=> d \in B) => Cardinality(A) = Cardinality(B)
         /\ d \in A /\ d \notin B => Cardinality(A) = Cardinality(B) + 1
         /\ d \notin A /\ d \in B => Cardinality(B) = Cardinality(A) + 1
<1>1. /\ IsFiniteSet(A) /\ Cardinality(A) \in Nat
      /\ IsFiniteSet(B) /\ Cardinality(B) \in Nat
  BY FS_Subset, FS_CardinalityType
<1>2. (d \in A <=> d \in B) => A = B
  OBVIOUS
<1>3. d \in A /\ d \notin B => A \ {d} = B
  OBVIOUS
<1>4. d \notin A /\ d \in B => B \ {d} = A
  OBVIOUS
<1>5. d \in A => Cardinality(A \ {d}) = Cardinality(A) - 1
  BY <1>1, FS_RemoveElement
<1>6. d \in B => Cardinality(B \ {d}) = Cardinality(B) - 1
  BY <1>1, FS_RemoveElement
<1>7. ASSUME d \in A, d \notin B
      PROVE  Cardinality(A) = Cardinality(B) + 1
  <2>1. Cardinality(B) = Cardinality(A) - 1
    BY <1>3, <1>5, <1>7
  <2>2. QED BY <1>1, <2>1
<1>8. ASSUME d \notin A, d \in B
      PROVE  Cardinality(B) = Cardinality(A) + 1
  <2>1. Cardinality(A) = Cardinality(B) - 1
    BY <1>4, <1>6, <1>8
  <2>2. QED BY <1>1, <2>1
<1>9. (d \in A <=> d \in B) => Cardinality(A) = Cardinality(B)
  BY <1>2
<1>10. QED BY <1>1, <1>7, <1>8, <1>9

PostsIn(s, r) == Cardinality({i \in 1..Len(s) : s[i] = r})

LEMMA PostsCount ==
  ASSUME NEW S, NEW s \in Seq(S), NEW r
  PROVE  /\ PostsIn(s, r) \in Nat
         /\ (\A i \in 1..Len(s) : s[i] # r) => PostsIn(s, r) = 0
         /\ \A x \in S : PostsIn(Append(s, x), r) = PostsIn(s, r) + (IF x = r THEN 1 ELSE 0)
<1> DEFINE N(t) == {i \in 1..Len(t) : t[i] = r}
<1>1. Len(s) \in Nat /\ IsFiniteSet(1..Len(s))
  BY LenProperties, FS_Interval
<1>2. IsFiniteSet(N(s)) /\ Cardinality(N(s)) \in Nat
  BY <1>1, FS_Subset, FS_CardinalityType
<1>3. (\A i \in 1..Len(s) : s[i] # r) => N(s) = {}
  OBVIOUS
<1>4. ASSUME NEW x \in S
      PROVE  Cardinality(N(Append(s, x))) = Cardinality(N(s)) + (IF x = r THEN 1 ELSE 0)
  <2> DEFINE t == Append(s, x)
  <2>1. Len(t) = Len(s) + 1 /\ t[Len(s) + 1] = x /\ \A i \in 1..Len(s) : t[i] = s[i]
    BY AppendProperties
  <2> HIDE DEF t
  <2>2. CASE x = r
    <3>1. N(t) = N(s) \cup {Len(s) + 1}
      BY <1>1, <2>1, <2>2
    <3>2. Len(s) + 1 \notin N(s)
      BY <1>1
    <3> HIDE DEF N
    <3>3. Cardinality(N(t)) = Cardinality(N(s)) + 1
      BY <1>2, <3>1, <3>2, FS_AddElement
    <3>4. QED BY <2>2, <3>3 DEF t
  <2>3. CASE x # r
    <3>1. N(t) = N(s)
      BY <1>1, <2>1, <2>3
    <3> HIDE DEF N
    <3>2. QED BY <1>2, <2>3, <3>1 DEF t
  <2>4. QED BY <2>2, <2>3
<1> HIDE DEF N
<1>5. PostsIn(s, r) = Cardinality(N(s)) /\ \A x \in S : PostsIn(Append(s, x), r) = Cardinality(N(Append(s, x)))
  BY DEF PostsIn, N
<1>6. (\A i \in 1..Len(s) : s[i] # r) => Cardinality(N(s)) = 0
  BY <1>3, FS_EmptySet
<1>7. \A x \in S : PostsIn(Append(s, x), r) = PostsIn(s, r) + (IF x = r THEN 1 ELSE 0)
  <2> TAKE x \in S
  <2>1. Cardinality(N(Append(s, x))) = Cardinality(N(s)) + (IF x = r THEN 1 ELSE 0)
    BY <1>4
  <2>2. QED BY <1>5, <2>1
<1>8. PostsIn(s, r) \in Nat
  BY <1>2, <1>5
<1>9. QED BY <1>5, <1>6, <1>7, <1>8

LEMMA SeqGrows ==
  ASSUME NEW S, NEW T, S \subseteq T, NEW s \in Seq(S)
  PROVE  s \in Seq(T)
<1>1. Len(s) \in Nat /\ s \in [1..Len(s) -> S]
  BY LenProperties
<1>2. s \in [1..Len(s) -> T]
  BY <1>1
<1>3. QED BY <1>1, <1>2, SeqDef

LEMMA RowTyped ==
  ASSUME Inv, NEW r \in Row
  PROVE  rows[r] \in RowType
BY LenProperties DEF Inv, TypesInv, Row

LEMMA RowsAreFew == Inv => Len(rows) \in Nat /\ Row \subseteq 1..MaxRows
BY LenProperties DEF Inv, TypesInv, Row

LEMMA InitInv == Init => Inv
<1> SUFFICES ASSUME Init PROVE Inv
  OBVIOUS
<1>1. Row = {} /\ Len(rows) = 0 /\ rows \in Seq(RowType) /\ posted \in Seq(Row) /\ Len(posted) = 0
  BY EmptySeq DEF Init, Row
<1>2. TypesInv
  BY <1>1 DEF Init, TypesInv, NoSignal, Idle, Reason
<1>3. ClaimsInv
  BY <1>1 DEF Init, ClaimsInv, Idle
<1>4. PostsInv /\ RecoveryInv /\ OrderInv
  BY <1>1 DEF Init, PostsInv, RecoveryInv, OrderInv, Idle, RecoveryFollowsAlert, PostedInOrder
<1>5. QED BY <1>2, <1>3, <1>4 DEF Inv

-----------------------------------------------------------------------------
(* What the dispatcher of a row does *)

\* Posts, strays and the post a row is due, in balance.
Balanced(r) == Posts(r) + Cardinality(Strays(r)) <= disturbed[r] + (IF Made(r) THEN 1 ELSE 0)

\* Everything but the one dispatcher, and everything but its row, stays.
DispStep(d) ==
  /\ disp[d].pc # "idle"
  /\ \A e \in Dispatcher \ {d} : disp'[e] = disp[e]
  /\ Len(rows') = Len(rows)
  /\ \A s \in Row : Kept(rows[s], rows'[s])
  /\ \A s \in Row : \/ rows'[s] = rows[s]
                    \/ s = disp[d].row /\ Mine(d) /\ rows'[s].token \notin Dispatcher

LEMMA OthersStay ==
  ASSUME Inv, NEW d \in Dispatcher, DispStep(d)
  PROVE  /\ \A e \in Dispatcher \ {d} : disp[e].pc # "idle" => (Mine(e)' <=> Mine(e))
         /\ \A r \in Row : Strays(r)' \ {d} = Strays(r) \ {d}
         /\ \A r \in Row : Strays(r)' \in SUBSET Dispatcher /\ Strays(r) \in SUBSET Dispatcher
<1>1. ASSUME NEW e \in Dispatcher \ {d}, disp[e].pc # "idle"
      PROVE  Mine(e)' <=> Mine(e)
  <2>1. disp[e].row \in Row /\ disp'[e] = disp[e]
    BY <1>1 DEF Inv, ClaimsInv, DispStep
  <2>2. CASE rows'[disp[e].row] = rows[disp[e].row]
    BY <2>1, <2>2 DEF Mine
  <2>3. CASE disp[e].row = disp[d].row /\ Mine(d) /\ rows'[disp[e].row].token \notin Dispatcher
    BY <2>1, <2>3 DEF Mine
  <2>4. QED BY <2>1, <2>2, <2>3 DEF DispStep
<1>2. ASSUME NEW r \in Row
      PROVE  Strays(r)' \ {d} = Strays(r) \ {d}
  BY <1>1 DEF Strays, DispStep
<1>3. QED BY <1>1, <1>2 DEF Strays

\* How the count of a row may change.
LEMMA Balance ==
  ASSUME Inv, NEW d, NEW r \in Row, TypesInv',
         Strays(r)' \ {d} = Strays(r) \ {d},
         Strays(r)' \in SUBSET Dispatcher, Strays(r) \in SUBSET Dispatcher
  PROVE  /\ \A n \in {0, 1} :
              /\ Posts(r)' = Posts(r) + n
              /\ d \in Strays(r)' => d \in Strays(r) /\ n = 0
              /\ \/ n = 0 /\ disturbed'[r] = disturbed[r] /\ (Made(r) => Made(r)')
                 \/ disturbed'[r] = disturbed[r] + 1 /\ (n = 0 \/ (Made(r) => Made(r)'))
                 \/ n = 1 /\ disturbed'[r] = disturbed[r] /\ ~Made(r) /\ Made(r)'
                 \/ n = 1 /\ disturbed'[r] = disturbed[r] /\ (Made(r) => Made(r)')
                      /\ d \in Strays(r) /\ d \notin Strays(r)'
              => Balanced(r)'
<1> DEFINE p == Posts(r)  q == Posts(r)'  n1 == Cardinality(Strays(r))  n2 == Cardinality(Strays(r)')
           d1 == disturbed[r]  d2 == disturbed'[r]
           m1 == IF Made(r) THEN 1 ELSE 0   m2 == IF Made(r)' THEN 1 ELSE 0
<1>1. /\ n1 \in Nat /\ n2 \in Nat
      /\ (d \in Strays(r) <=> d \in Strays(r)') => n1 = n2
      /\ d \in Strays(r) /\ d \notin Strays(r)' => n1 = n2 + 1
  BY SetsBut
<1>2. p \in Nat
  <2>1. posted \in Seq(Row)
    BY DEF Inv, TypesInv
  <2>2. p = PostsIn(posted, r)
    BY DEF Posts, PostsIn
  <2>3. QED BY <2>1, <2>2, PostsCount
<1>3. d1 \in Nat
  <2>1. Row \subseteq 1..MaxRows
    BY LenProperties DEF Inv, TypesInv, Row
  <2>2. QED BY <2>1 DEF Inv, TypesInv
<1>4. p + n1 <= d1 + m1
  BY DEF Inv, PostsInv, Balanced
<1>5. m1 \in {0, 1} /\ m2 \in {0, 1} /\ (Made(r) <=> m1 = 1) /\ (Made(r)' <=> m2 = 1)
  OBVIOUS
<1> SUFFICES ASSUME NEW n \in {0, 1}, q = p + n, d \in Strays(r)' => d \in Strays(r) /\ n = 0,
                    \/ n = 0 /\ d2 = d1 /\ (Made(r) => Made(r)')
                    \/ d2 = d1 + 1 /\ (n = 0 \/ (Made(r) => Made(r)'))
                    \/ n = 1 /\ d2 = d1 /\ ~Made(r) /\ Made(r)'
                    \/ n = 1 /\ d2 = d1 /\ (Made(r) => Made(r)')
                       /\ d \in Strays(r) /\ d \notin Strays(r)'
             PROVE  q + n2 <= d2 + m2
  BY DEF Balanced
<1>6. n2 <= n1
  BY <1>1
<1> HIDE DEF p, q, n1, n2, d1, d2, m1, m2
<1>7. CASE n = 0 /\ d2 = d1 /\ (Made(r) => Made(r)')
  BY <1>1, <1>2, <1>3, <1>4, <1>5, <1>6, <1>7
<1>8. CASE d2 = d1 + 1 /\ (n = 0 \/ (Made(r) => Made(r)'))
  <2>1. d2 = d1 + 1 /\ n + m1 <= 1 + m2
    BY <1>5, <1>8
  <2>2. QED BY <1>1, <1>2, <1>3, <1>4, <1>5, <1>6, <2>1
<1>9. CASE n = 1 /\ d2 = d1 /\ ~Made(r) /\ Made(r)'
  BY <1>1, <1>2, <1>3, <1>4, <1>5, <1>6, <1>9
<1>10. CASE n = 1 /\ d2 = d1 /\ (Made(r) => Made(r)') /\ d \in Strays(r) /\ d \notin Strays(r)'
  <2>1. n1 = n2 + 1
    BY <1>1, <1>10
  <2>2. QED BY <1>1, <1>2, <1>3, <1>4, <1>5, <1>10, <2>1
<1>11. QED BY <1>7, <1>8, <1>9, <1>10

\* How the count of a row changes if its dispatchers go on as they are, and may lose it only if
\* it counts as disturbed.
LEMMA BalanceTaken ==
  ASSUME Inv, NEW r \in Row, NEW taken \in BOOLEAN, posted' = posted,
         disturbed'[r] = disturbed[r] + (IF taken THEN 1 ELSE 0),
         \A e \in Dispatcher : disp'[e].pc \in {"post", "complete"} => disp'[e] = disp[e],
         \A e \in Dispatcher : disp[e].pc \in {"post", "complete"} => disp'[e] = disp[e],
         \A e \in Dispatcher : disp[e].pc # "idle" /\ disp[e].row = r =>
           (Mine(e)' => Mine(e)) /\ (Mine(e) => taken \/ Mine(e)'),
         rows[r].status = "sent" => taken \/ rows'[r].status = "sent"
  PROVE  Balanced(r)'
<1> DEFINE p == PostsIn(posted, r)  n1 == Cardinality(Strays(r))  n2 == Cardinality(Strays(r)')
           d1 == disturbed[r]  d2 == disturbed'[r]
           m1 == IF Made(r) THEN 1 ELSE 0  m2 == IF Made(r)' THEN 1 ELSE 0
           d == rows[r].token
<1>1. p \in Nat /\ Posts(r) = p /\ Posts(r)' = p
  <2>1. posted \in Seq(Row)
    BY DEF Inv, TypesInv
  <2>2. p \in Nat
    BY <2>1, PostsCount
  <2>3. QED BY <2>2 DEF Posts, PostsIn
<1>2. p + n1 <= d1 + m1
  BY <1>1 DEF Inv, PostsInv, Balanced
<1>3. d1 \in Nat /\ d2 = d1 + (IF taken THEN 1 ELSE 0)
  BY RowsAreFew DEF Inv, TypesInv
<1>4. /\ Strays(r) \in SUBSET Dispatcher /\ Strays(r)' \in SUBSET Dispatcher
      /\ Strays(r)' \ {d} = Strays(r) \ {d}
      /\ d \in Strays(r) => d \in Strays(r)'
      /\ Strays(r)' # Strays(r) => taken /\ disp[d].pc = "post" /\ rows[r].status = "sending"
  <2>1. ASSUME NEW e \in Dispatcher, disp[e].pc = "post", disp[e].row = r, Mine(e)
        PROVE  e = d /\ rows[r].status = "sending"
    BY <2>1 DEF Mine
  <2>2. \A e \in Dispatcher : disp'[e].pc = "post" <=> disp[e].pc = "post" /\ disp'[e] = disp[e]
    OBVIOUS
  <2>3. \A e \in Dispatcher : disp[e].pc = "post" /\ disp[e].row = r =>
          (Mine(e)' => Mine(e)) /\ (Mine(e) => taken \/ Mine(e)')
    OBVIOUS
  <2>4. QED BY <2>1, <2>2, <2>3 DEF Strays
<1>5. /\ n1 \in Nat /\ n2 \in Nat
      /\ n2 = n1 \/ n2 = n1 + 1
      /\ n2 # n1 => taken /\ disp[d].pc = "post" /\ rows[r].status = "sending"
  BY <1>4, SetsBut
<1>6. m1 \in {0, 1} /\ m2 \in {0, 1}
  OBVIOUS
<1>7. disp[d].pc = "post" /\ rows[r].status = "sending" => m1 = 0
  BY DEF Made, Mine
<1>8. taken \/ m1 <= m2
  <2> SUFFICES ASSUME ~taken, Made(r) PROVE Made(r)'
    OBVIOUS
  <2>1. CASE rows[r].status = "sent"
    BY <2>1 DEF Made
  <2>2. CASE \E e \in Dispatcher : disp[e].pc = "complete" /\ disp[e].ok /\ disp[e].row = r /\ Mine(e)
    <3>1. PICK e \in Dispatcher : disp[e].pc = "complete" /\ disp[e].ok /\ disp[e].row = r /\ Mine(e)
      BY <2>2
    <3>2. Mine(e)' /\ disp'[e] = disp[e]
      BY <3>1
    <3>3. QED BY <3>1, <3>2 DEF Made
  <2>3. QED BY <2>1, <2>2 DEF Made
<1>9. p + n2 <= d2 + m2
  <2> HIDE DEF p, n1, n2, d1, d2, m1, m2, d
  <2>1. CASE taken
    <3>1. d2 = d1 + 1
      BY <1>3, <2>1
    <3>2. CASE n2 = n1
      BY <1>1, <1>2, <1>3, <1>5, <1>6, <3>1, <3>2
    <3>3. CASE n2 # n1
      <4>1. m1 = 0 /\ n2 = n1 + 1
        BY <1>5, <1>7, <3>3
      <4>2. QED BY <1>1, <1>2, <1>3, <1>5, <1>6, <3>1, <4>1
    <3>4. QED BY <3>2, <3>3
  <2>2. CASE ~taken
    <3>1. d2 = d1 /\ n2 = n1 /\ m1 <= m2
      BY <1>3, <1>5, <1>8, <2>2
    <3>2. QED BY <1>1, <1>2, <1>3, <1>5, <1>6, <3>1
  <2>3. QED BY <2>1, <2>2
<1>10. QED BY <1>1, <1>9 DEF Balanced

DispType == [pc : {"idle", "gate", "post", "suppress", "complete"}, row : Nat, reason : Reason, ok : BOOLEAN]

\* The message of a row whose dispatcher posts comes after those of earlier rows, or is excused.
LEMMA PostInOrder ==
  ASSUME Inv, NEW d \in Dispatcher, disp[d].pc = "post", NEW i \in 1..Len(posted)
  PROVE  posted[i] <= disp[d].row \/ rows[disp[d].row].released \/ rows[disp[d].row].recalled
<1> DEFINE r == disp[d].row  s == posted[i]
<1>1. r \in Row /\ (Mine(d) \/ Excused(rows[r]))
  BY DEF Inv, ClaimsInv
<1>2. s \in Row
  BY DEF Inv, TypesInv
<1>3. Accepted(s)
  BY DEF Accepted
<1>4. rows[s].attempts > 0
  BY <1>2, <1>3 DEF Inv, ClaimsInv
<1>5. r \in Nat /\ s \in Nat
  BY <1>1, <1>2 DEF Row
<1> SUFFICES ASSUME r < s, ~rows[r].released, ~rows[r].recalled PROVE FALSE
  BY <1>5
<1>6. rows[r].status \in Undelivered
  BY <1>1 DEF Mine, Undelivered, Excused
<1>7. QED BY <1>1, <1>2, <1>4, <1>6 DEF Inv, OrderInv

\* What was posted stays in order and told of, if rows keep what they say and nothing is posted.
LEMMA RecoveryKept ==
  ASSUME Inv, posted' = posted, Row \subseteq Row', \A r \in Row : Says(rows[r], rows'[r]),
         \A d \in Dispatcher : disp'[d].pc = "post" => disp[d].pc = "post" /\ disp'[d].row = disp[d].row,
         \A r \in Row' : rows'[r].transition = "recovered" /\ rows'[r].status \in Undelivered =>
                         signal'.exists /\ rows'[r].since <= signal'.openedAt
  PROVE  RecoveryInv'
<1>1. \A i \in 1..Len(posted) : posted[i] \in Row
  BY DEF Inv, TypesInv
<1>2. \A r, s \in Row : Tells(rows[r], rows[s]) => Tells(rows'[r], rows'[s])
  BY DEF Tells, IsAlert, Says
<1>3. ASSUME NEW d \in Dispatcher, disp'[d].pc = "post", rows'[disp'[d].row].transition = "recovered"
      PROVE  \E i \in 1..Len(posted) : Tells(rows'[posted[i]], rows'[disp'[d].row])
  <2>1. disp[d].pc = "post" /\ disp'[d].row = disp[d].row /\ disp[d].row \in Row
    BY <1>3 DEF Inv, ClaimsInv
  <2>2. rows[disp[d].row].transition = "recovered"
    BY <1>3, <2>1 DEF Says
  <2>3. PICK i \in 1..Len(posted) : Tells(rows[posted[i]], rows[disp[d].row])
    BY <2>1, <2>2 DEF Inv, RecoveryInv
  <2>4. QED BY <1>1, <1>2, <2>1, <2>3
<1>4. ASSUME NEW i \in 1..Len(posted), rows'[posted[i]].transition = "recovered"
      PROVE  \E k \in 1..(i - 1) : Tells(rows'[posted[k]], rows'[posted[i]])
  <2>1. rows[posted[i]].transition = "recovered"
    BY <1>1, <1>4 DEF Says
  <2>2. PICK k \in 1..(i - 1) : Tells(rows[posted[k]], rows[posted[i]])
    BY <2>1 DEF Inv, RecoveryInv, RecoveryFollowsAlert
  <2>3. k \in 1..Len(posted)
    BY LenProperties DEF Inv, TypesInv
  <2>4. QED BY <1>1, <1>2, <2>2, <2>3
<1>5. RecoveryFollowsAlert'
  BY <1>4 DEF RecoveryFollowsAlert, Tells, IsAlert
<1>6. QED BY <1>3, <1>5 DEF RecoveryInv, Tells, IsAlert

LEMMA OrderKept ==
  ASSUME Inv, posted' = posted, Row \subseteq Row', \A r \in Row : Says(rows[r], rows'[r]),
         \A r \in Row' : rows'[r].status \in Undelivered /\ ~rows'[r].released =>
           /\ signal'.exists /\ rows'[r].occurred <= signal'.lastSeen
           /\ \A s \in Row' : r < s => /\ rows'[r].occurred <= rows'[s].occurred
                                       /\ rows'[s].attempts > 0 => rows'[r].recalled
  PROVE  OrderInv'
<1>1. \A i \in 1..Len(posted) : posted[i] \in Row
  BY DEF Inv, TypesInv
<1>2. PostedInOrder'
  BY <1>1 DEF Inv, OrderInv, PostedInOrder, Says
<1>3. QED BY <1>2 DEF OrderInv

\* A dispatcher that goes on with its row, and may post it.
LEMMA Proceeds ==
  ASSUME Inv, NEW d \in Dispatcher, NEW x \in DispType, disp[d].pc # "idle", x.pc # "idle",
         disp' = [disp EXCEPT ![d] = x], x.row = disp[d].row, UNCHANGED <<signal, rows>>,
         disturbed' \in [1..MaxRows -> Nat],
         posted' = posted \/ (disp[d].pc = "post" /\ posted' = Append(posted, disp[d].row)),
         x.pc = "complete" /\ x.ok => posted' = Append(posted, disp[d].row),
         x.pc = "post" => Mine(d) /\ (rows[x.row].transition = "recovered" =>
                                        \E i \in 1..Len(posted) : Tells(rows[posted[i]], rows[x.row]))
  PROVE  /\ TypesInv' /\ ClaimsInv' /\ RecoveryInv' /\ OrderInv' /\ DispStep(d)
         /\ \A e \in Dispatcher : Mine(e)' <=> Mine(e)
         /\ disp'[d] = x
<1> DEFINE r == disp[d].row
<1>1. r \in Row /\ rows[r].attempts > 0
  BY DEF Inv, ClaimsInv
<1>2. TypesInv'
  <2>1. posted' \in Seq(Row)
    <3>1. posted \in Seq(Row)
      BY DEF Inv, TypesInv
    <3>2. Append(posted, r) \in Seq(Row)
      BY <1>1, <3>1, AppendProperties
    <3>3. QED BY <3>1, <3>2
  <2>2. disp' \in [Dispatcher -> DispType]
    BY DEF Inv, TypesInv, DispType
  <2>3. Row' = Row
    BY DEF Row
  <2>4. QED BY <2>1, <2>2, <2>3 DEF Inv, TypesInv, DispType
<1>3. disp'[d] = x /\ \A e \in Dispatcher \ {d} : disp'[e] = disp[e]
  BY DEF Inv, TypesInv
<1>4. \A e \in Dispatcher : Mine(e)' <=> Mine(e)
  BY <1>3 DEF Mine
<1>5. DispStep(d)
  BY <1>3 DEF DispStep, Kept, Says
<1>6. /\ Len(posted') >= Len(posted) /\ Len(posted) \in Nat
      /\ \A i \in 1..Len(posted) : i \in 1..Len(posted') /\ posted'[i] = posted[i]
      /\ \A i \in 1..Len(posted') : i \notin 1..Len(posted) =>
            posted'[i] = r /\ disp[d].pc = "post" /\ i = Len(posted) + 1
      /\ x.pc = "complete" /\ x.ok => \E i \in 1..Len(posted') : posted'[i] = r
  <2>1. posted \in Seq(Row) /\ Len(posted) \in Nat
    BY LenProperties DEF Inv, TypesInv
  <2>2. CASE posted' = posted
    <3>1. posted # Append(posted, r)
      BY <1>1, <2>1, AppendProperties
    <3>2. QED BY <2>1, <2>2, <3>1
  <2>3. CASE disp[d].pc = "post" /\ posted' = Append(posted, r)
    <3>1. /\ Len(posted') = Len(posted) + 1 /\ posted'[Len(posted) + 1] = r
          /\ \A i \in 1..Len(posted) : posted'[i] = posted[i]
      BY <1>1, <2>1, <2>3, AppendProperties
    <3>2. QED BY <2>1, <2>3, <3>1
  <2>4. QED BY <2>2, <2>3
<1>7. \A s \in Row : Accepted(s) => Accepted(s)'
  BY <1>6 DEF Accepted
<1>8. \A s \in Row : Accepted(s)' => Accepted(s) \/ s = r
  BY <1>6 DEF Accepted
<1>9. ClaimsInv'
  <2>1. \A s \in Row : /\ rows[s].token = None <=> rows[s].status # "sending"
                       /\ rows[s].status = "sent" => Accepted(s)'
                       /\ rows[s].status = "sending" \/ Accepted(s)' => rows[s].attempts > 0
    BY <1>1, <1>7, <1>8 DEF Inv, ClaimsInv
  <2>2. \A s \in Row : rows[s].token \in Dispatcher =>
                         disp'[rows[s].token].pc # "idle" /\ disp'[rows[s].token].row = s
    BY <1>3 DEF Inv, ClaimsInv
  <2>3. ASSUME NEW e \in Dispatcher, disp'[e].pc # "idle"
        PROVE  /\ disp'[e].row \in Row /\ rows[disp'[e].row].attempts > 0
               /\ disp'[e].pc = "post" => Mine(e)' \/ Excused(rows[disp'[e].row])
               /\ disp'[e].pc = "complete" /\ disp'[e].ok => Accepted(disp[e].row)'
    <3>1. CASE e = d
      BY <1>1, <1>3, <1>4, <1>6, <3>1 DEF Accepted
    <3>2. CASE e # d
      <4>1. /\ disp[e].row \in Row /\ rows[disp[e].row].attempts > 0
            /\ disp[e].pc = "post" => Mine(e) \/ Excused(rows[disp[e].row])
            /\ disp[e].pc = "complete" /\ disp[e].ok => Accepted(disp[e].row)
        BY <1>3, <2>3, <3>2 DEF Inv, ClaimsInv
      <4>2. QED BY <1>3, <1>4, <1>7, <3>2, <4>1
    <3>3. QED BY <3>1, <3>2
  <2>4. Row' = Row /\ rows' = rows
    BY DEF Row
  <2>5. QED BY <2>1, <2>2, <2>3, <2>4 DEF ClaimsInv
<1>10. RecoveryInv'
  <2>1. ASSUME NEW e \in Dispatcher, disp'[e].pc = "post", rows[disp'[e].row].transition = "recovered"
        PROVE  \E i \in 1..Len(posted) : Tells(rows[posted[i]], rows[disp'[e].row])
    BY <1>3, <2>1 DEF Inv, RecoveryInv
  <2>2. ASSUME NEW e \in Dispatcher, disp'[e].pc = "post", rows[disp'[e].row].transition = "recovered"
        PROVE  \E i \in 1..Len(posted') : Tells(rows[posted'[i]], rows[disp'[e].row])
    BY <1>6, <2>1, <2>2
  <2>3. ASSUME NEW i \in 1..Len(posted'), rows[posted'[i]].transition = "recovered"
        PROVE  \E k \in 1..(i - 1) : Tells(rows[posted'[k]], rows[posted'[i]])
    <3>1. CASE i \in 1..Len(posted)
      <4>1. PICK k \in 1..(i - 1) : Tells(rows[posted[k]], rows[posted[i]])
        BY <1>6, <2>3, <3>1 DEF Inv, RecoveryInv, RecoveryFollowsAlert
      <4>2. k \in 1..Len(posted)
        BY <1>6, <3>1
      <4>3. QED BY <1>6, <3>1, <4>1, <4>2
    <3>2. CASE i \notin 1..Len(posted)
      <4>1. posted'[i] = r /\ disp[d].pc = "post" /\ i = Len(posted) + 1
        BY <1>6, <3>2
      <4>2. PICK k \in 1..Len(posted) : Tells(rows[posted[k]], rows[r])
        BY <2>3, <4>1 DEF Inv, RecoveryInv
      <4>3. k \in 1..(i - 1)
        BY <1>6, <4>1
      <4>4. QED BY <1>6, <4>1, <4>2, <4>3
    <3>3. QED BY <3>1, <3>2
  <2>4. \A s \in Row : rows[s].transition = "recovered" /\ rows[s].status \in Undelivered =>
                         signal.exists /\ rows[s].since <= signal.openedAt
    BY DEF Inv, RecoveryInv
  <2>5. Row' = Row /\ rows' = rows /\ signal' = signal
    BY DEF Row
  <2>6. RecoveryFollowsAlert'
    BY <2>3, <2>5 DEF RecoveryFollowsAlert, Tells, IsAlert
  <2>7. QED BY <2>2, <2>4, <2>5, <2>6 DEF RecoveryInv, Tells, IsAlert
<1>11. OrderInv'
  <2>1. ASSUME NEW i \in 1..Len(posted'), NEW k \in 1..Len(posted'), i < k
        PROVE  posted'[i] <= posted'[k] \/ rows[posted'[k]].released \/ rows[posted'[k]].recalled
    <3>1. CASE k \in 1..Len(posted)
      <4>1. i \in 1..Len(posted)
        BY <1>6, <2>1, <3>1
      <4>2. QED BY <1>6, <2>1, <3>1, <4>1 DEF Inv, OrderInv, PostedInOrder
    <3>2. CASE k \notin 1..Len(posted)
      <4>1. posted'[k] = r /\ disp[d].pc = "post" /\ k = Len(posted) + 1
        BY <1>6, <3>2
      <4>2. i \in 1..Len(posted)
        BY <1>6, <2>1, <4>1
      <4>3. QED BY <1>6, <4>1, <4>2, PostInOrder
    <3>3. QED BY <3>1, <3>2
  <2>2. Row' = Row /\ rows' = rows /\ signal' = signal
    BY DEF Row
  <2>3. PostedInOrder'
    BY <2>1, <2>2 DEF PostedInOrder
  <2>4. QED BY <2>2, <2>3 DEF Inv, OrderInv
<1>12. QED BY <1>2, <1>3, <1>4, <1>5, <1>9, <1>10, <1>11

\* The gate lets a recovery pass only if Discord has heard of its incident.
LEMMA GateKeepsRecovery ==
  ASSUME Inv, NEW d \in Dispatcher, disp[d].pc = "gate", BlockReason(d) = None
  PROVE  /\ Mine(d)
         /\ rows[disp[d].row].transition = "recovered" =>
              \E i \in 1..Len(posted) : Tells(rows[posted[i]], rows[disp[d].row])
<1> DEFINE row == rows[disp[d].row]
<1>1. disp[d].row \in Row
  BY DEF Inv, ClaimsInv
<1>2. row \in RowType
  BY <1>1, RowTyped
<1>3. Mine(d) /\ SuppressionReason = None
  BY DEF BlockReason, None
<1>4. ASSUME row.transition = "recovered"
      PROVE  \E i \in 1..Len(posted) : Tells(rows[posted[i]], row)
  <2>1. ~IsAlert(row)
    BY <1>4 DEF IsAlert, Alert
  <2>2. ~(signal.exists /\ row.occurred < signal.openedAt) /\ ~LoneRecovery(rows, row)
    BY <1>3, <2>1 DEF BlockReason, None
  <2>3. signal.exists /\ row.since <= signal.openedAt
    BY <1>1, <1>3, <1>4 DEF Inv, RecoveryInv, Mine, Undelivered
  <2>4. signal.openedAt \in Nat /\ row.since \in Nat /\ row.occurred \in Nat
    BY <1>2 DEF Inv, TypesInv, RowType
  <2>5. PICK k \in DeliveredBefore(rows, row) : ~(rows[k].occurred < signal.openedAt /\ row.occurred >= signal.openedAt)
    BY <2>2, <2>3 DEF LoneRecovery
  <2>6. k \in Row /\ IsAlert(rows[k]) /\ rows[k].status = "sent" /\ rows[k].occurred <= row.occurred
    BY LenProperties DEF DeliveredBefore, Row, Inv, TypesInv
  <2>7. rows[k].occurred \in Nat
    BY <2>6, RowTyped DEF RowType
  <2>8. rows[k].occurred \in row.since..row.occurred
    BY <2>2, <2>3, <2>4, <2>5, <2>6, <2>7
  <2>9. Tells(rows[k], row)
    BY <2>6, <2>8 DEF Tells
  <2>10. Accepted(k)
    BY <2>6 DEF Inv, ClaimsInv
  <2>11. QED BY <2>9, <2>10 DEF Accepted
<1>5. QED BY <1>3, <1>4

LEMMA BlockReasons ==
  ASSUME NEW d
  PROVE  BlockReason(d) \in Reason
<1>1. CASE Mine(d) /\ SuppressionReason # None
  BY <1>1, Reasons DEF BlockReason
<1>2. CASE ~(Mine(d) /\ SuppressionReason # None)
  BY <1>2 DEF BlockReason, Reason
<1>3. QED BY <1>1, <1>2

\* A dispatcher that goes on posts nothing, and nobody loses a claim.
LEMMA QuietStep ==
  ASSUME Inv, NEW d \in Dispatcher, NEW x \in DispType, disp[d].pc \notin {"idle", "post", "complete"},
         TypesInv', DispStep(d), \A e \in Dispatcher : Mine(e)' <=> Mine(e), disp'[d] = x,
         x.pc = "post" => Mine(d), x.pc # "complete",
         UNCHANGED <<rows, posted, disturbed>>
  PROVE  PostsInv'
<1> SUFFICES ASSUME NEW r \in Row PROVE Balanced(r)'
  BY DEF PostsInv, Balanced, Row
<1>1. /\ Strays(r)' \ {d} = Strays(r) \ {d}
      /\ Strays(r)' \in SUBSET Dispatcher /\ Strays(r) \in SUBSET Dispatcher
  BY OthersStay
<1>2. d \notin Strays(r)'
  BY DEF Strays
<1>3. Made(r) => Made(r)'
  BY DEF Made, DispStep
<1>4. Posts(r)' = Posts(r) /\ Posts(r) \in Nat
  <2>1. posted \in Seq(Row) /\ Posts(r) = PostsIn(posted, r)
    BY DEF Inv, TypesInv, Posts, PostsIn
  <2>2. QED BY <2>1, PostsCount DEF Posts
<1>5. Posts(r)' = Posts(r) + 0
  BY <1>4
<1>6. QED BY <1>1, <1>2, <1>3, <1>5, Balance

LEMMA GateStep ==
  ASSUME Inv, NEW d \in Dispatcher, Gate(d) \/ GateFails(d)
  PROVE  Inv' /\ RowsStay
<1>1. PICK x \in DispType :
        /\ disp' = [disp EXCEPT ![d] = x] /\ x.row = disp[d].row
        /\ x.pc \in {"post", "suppress"}
        /\ x.pc = "post" => BlockReason(d) = None
  <2>1. disp[d] \in DispType
    BY DEF Inv, TypesInv, DispType
  <2>2. CASE Gate(d)
    <3> DEFINE x == [disp[d] EXCEPT !.pc = IF BlockReason(d) = None THEN "post" ELSE "suppress",
                                    !.reason = BlockReason(d)]
    <3>1. x \in DispType /\ x.row = disp[d].row
      BY <2>1, BlockReasons DEF DispType
    <3>2. disp' = [disp EXCEPT ![d] = x]
      BY <2>2 DEF Gate
    <3>3. x.pc = IF BlockReason(d) = None THEN "post" ELSE "suppress"
      BY <2>1 DEF DispType
    <3> HIDE DEF x
    <3>4. QED BY <3>1, <3>2, <3>3
  <2>3. CASE GateFails(d)
    <3> DEFINE x == [disp[d] EXCEPT !.pc = "suppress", !.reason = "delivery_gate_failed"]
    <3>1. x \in DispType /\ x.row = disp[d].row /\ x.pc = "suppress"
      BY <2>1 DEF DispType, Reason
    <3>2. disp' = [disp EXCEPT ![d] = x]
      BY <2>3 DEF GateFails
    <3> HIDE DEF x
    <3>3. QED BY <3>1, <3>2
  <2>4. QED BY <2>2, <2>3
<1>2. disp[d].pc = "gate" /\ UNCHANGED <<signal, rows, posted, disturbed>>
  BY DEF Gate, GateFails, DispFrame
<1>3. x.pc = "post" => Mine(d) /\ (rows[x.row].transition = "recovered" =>
                                     \E i \in 1..Len(posted) : Tells(rows[posted[i]], rows[x.row]))
  BY <1>1, <1>2, GateKeepsRecovery
<1>4. disturbed' \in [1..MaxRows -> Nat]
  BY <1>2 DEF Inv, TypesInv
<1>5. disp[d].pc # "idle" /\ x.pc # "idle" /\ x.pc # "complete" /\ posted' = posted
      /\ UNCHANGED <<signal, rows>> /\ UNCHANGED <<rows, posted, disturbed>>
  BY <1>1, <1>2
<1>6. /\ TypesInv' /\ ClaimsInv' /\ RecoveryInv' /\ OrderInv' /\ DispStep(d)
      /\ \A e \in Dispatcher : Mine(e)' <=> Mine(e)
      /\ disp'[d] = x
  BY <1>1, <1>2, <1>3, <1>4, <1>5, Proceeds
<1>7. PostsInv'
  BY <1>1, <1>2, <1>3, <1>5, <1>6, QuietStep
<1>8. QED BY <1>2, <1>6, <1>7 DEF Inv, RowsStay, Row

\* Disturb counts one for each row it names.
LEMMA BlamedCounts ==
  ASSUME Inv, NEW T, Disturb(T)
  PROVE  /\ disturbed' \in [1..MaxRows -> Nat]
         /\ \A r \in Row : disturbed'[r] = disturbed[r] + (IF r \in T THEN 1 ELSE 0)
<1>1. disturbed' = [r \in 1..MaxRows |-> IF r \in T THEN disturbed[r] + 1 ELSE disturbed[r]]
  BY DEF Disturb
<1>2. Row \subseteq 1..MaxRows /\ disturbed \in [1..MaxRows -> Nat]
  BY RowsAreFew DEF Inv, TypesInv
<1>3. disturbed' \in [1..MaxRows -> Nat]
  BY <1>1, <1>2
<1>4. ASSUME NEW r \in Row
      PROVE  disturbed'[r] = disturbed[r] + (IF r \in T THEN 1 ELSE 0)
  <2>1. disturbed'[r] = IF r \in T THEN disturbed[r] + 1 ELSE disturbed[r]
    BY <1>1, <1>2
  <2>2. disturbed[r] \in Nat
    BY <1>2
  <2>3. QED BY <2>1, <2>2
<1>5. QED BY <1>3, <1>4

LEMMA PostStep ==
  ASSUME Inv, NEW d \in Dispatcher, Post(d)
  PROVE  Inv' /\ RowsStay
<1>1. PICK ok \in BOOLEAN : /\ posted' = IF ok THEN Append(posted, disp[d].row) ELSE posted
                            /\ disp' = [disp EXCEPT ![d].pc = "complete", ![d].ok = ok]
  BY DEF Post
<1>2. disp[d].pc = "post" /\ UNCHANGED <<signal, rows, disturbed>>
  BY DEF Post, DispFrame
<1> DEFINE x == [disp[d] EXCEPT !.pc = "complete", !.ok = ok]
           s == disp[d].row
<1>3. disp[d] \in DispType
  BY DEF Inv, TypesInv, DispType
<1>4. x \in DispType /\ x.row = s /\ x.pc = "complete" /\ x.ok = ok
  BY <1>3 DEF DispType
<1>5. disp' = [disp EXCEPT ![d] = x]
  BY <1>1
<1>6. s \in Row /\ (Mine(d) \/ Excused(rows[s]))
  BY <1>2 DEF Inv, ClaimsInv
<1> HIDE DEF x
<1>7. disturbed' \in [1..MaxRows -> Nat]
  BY <1>2 DEF Inv, TypesInv
<1>8. /\ TypesInv' /\ ClaimsInv' /\ RecoveryInv' /\ OrderInv' /\ DispStep(d)
      /\ \A e \in Dispatcher : Mine(e)' <=> Mine(e)
      /\ disp'[d] = x
  <2>1. posted' = posted \/ (disp[d].pc = "post" /\ posted' = Append(posted, s))
    BY <1>1, <1>2
  <2>2. x.pc = "complete" /\ x.ok => posted' = Append(posted, s)
    BY <1>1, <1>4
  <2>3. UNCHANGED <<signal, rows>> /\ disp[d].pc # "idle" /\ x.pc # "idle" /\ x.pc # "post"
    BY <1>2, <1>4
  <2>4. QED BY <1>4, <1>5, <1>7, <2>1, <2>2, <2>3, Proceeds
<1>9. ASSUME NEW r \in Row
      PROVE  Balanced(r)'
  <2>1. /\ Strays(r)' \ {d} = Strays(r) \ {d}
        /\ Strays(r)' \in SUBSET Dispatcher /\ Strays(r) \in SUBSET Dispatcher
    BY <1>8, OthersStay
  <2>2. d \notin Strays(r)'
    BY <1>4, <1>8 DEF Strays
  <2>3. disturbed'[r] = disturbed[r]
    BY <1>2
  <2>4. /\ Posts(r) \in Nat
        /\ Posts(r)' = Posts(r) + (IF ok /\ s = r THEN 1 ELSE 0)
    <3>1. /\ posted \in Seq(Row) /\ Posts(r) = PostsIn(posted, r)
          /\ Posts(r)' = PostsIn(posted', r)
      BY DEF Inv, TypesInv, Posts, PostsIn
    <3>2. /\ PostsIn(posted, r) \in Nat
          /\ PostsIn(Append(posted, s), r) = PostsIn(posted, r) + (IF s = r THEN 1 ELSE 0)
      BY <1>6, <3>1, PostsCount
    <3>3. CASE ok
      BY <1>1, <3>1, <3>2, <3>3
    <3>4. CASE ~ok
      BY <1>1, <3>1, <3>2, <3>4
    <3>5. QED BY <3>3, <3>4
  <2>5. Made(r) => Made(r)'
    BY <1>2, <1>8 DEF Made, DispStep
  <2>6. CASE ~(ok /\ s = r)
    <3>1. Posts(r)' = Posts(r) + 0
      BY <2>4, <2>6
    <3>2. QED BY <1>8, <2>1, <2>2, <2>3, <2>5, <3>1, Balance
  <2>7. CASE ok /\ s = r
    <3>1. Posts(r)' = Posts(r) + 1
      BY <2>4, <2>7
    <3>2. CASE Mine(d)
      <4>1. Made(r)'
        BY <1>4, <1>8, <2>7, <3>2 DEF Made
      <4>2. ~Made(r)
        BY <1>2, <2>7, <3>2 DEF Made, Mine
      <4>3. QED BY <1>8, <2>1, <2>2, <2>3, <3>1, <4>1, <4>2, Balance
    <3>3. CASE ~Mine(d)
      <4>1. d \in Strays(r)
        BY <1>2, <2>7, <3>3 DEF Strays
      <4>2. QED BY <1>8, <2>1, <2>2, <2>3, <2>5, <3>1, <4>1, Balance
    <3>4. QED BY <3>2, <3>3
  <2>8. QED BY <2>6, <2>7
<1>10. PostsInv'
  BY <1>2, <1>9 DEF PostsInv, Balanced, Row
<1>11. QED BY <1>2, <1>8, <1>10 DEF Inv, RowsStay, Row

LEMMA PostTimesOutStep ==
  ASSUME Inv, NEW d \in Dispatcher, PostTimesOut(d)
  PROVE  Inv' /\ RowsStay
<1> DEFINE x == [disp[d] EXCEPT !.pc = "complete", !.ok = FALSE]
           s == disp[d].row
<1>1. posted' = Append(posted, s) /\ disp' = [disp EXCEPT ![d] = x] /\ Disturb({s})
  BY DEF PostTimesOut
<1>2. disp[d].pc = "post" /\ UNCHANGED <<signal, rows>>
  BY DEF PostTimesOut, DispFrame
<1>3. disp[d] \in DispType
  BY DEF Inv, TypesInv, DispType
<1>4. x \in DispType /\ x.row = s /\ x.pc = "complete" /\ x.ok = FALSE
  BY <1>3 DEF DispType
<1>5. s \in Row
  BY <1>2 DEF Inv, ClaimsInv
<1> HIDE DEF x
<1>6. /\ disturbed' \in [1..MaxRows -> Nat]
      /\ \A r \in Row : disturbed'[r] = IF r = s THEN disturbed[r] + 1 ELSE disturbed[r]
  <2>1. \A r \in Row : disturbed'[r] = disturbed[r] + (IF r \in {s} THEN 1 ELSE 0)
    BY <1>1, BlamedCounts
  <2>2. disturbed' \in [1..MaxRows -> Nat]
    BY <1>1, BlamedCounts
  <2>3. \A r \in Row : disturbed[r] \in Nat
    BY RowsAreFew DEF Inv, TypesInv
  <2>4. QED BY <2>1, <2>2, <2>3
<1>7. /\ TypesInv' /\ ClaimsInv' /\ RecoveryInv' /\ OrderInv' /\ DispStep(d)
      /\ \A e \in Dispatcher : Mine(e)' <=> Mine(e)
      /\ disp'[d] = x
  <2>1. posted' = posted \/ (disp[d].pc = "post" /\ posted' = Append(posted, s))
    BY <1>1, <1>2
  <2>2. disp' = [disp EXCEPT ![d] = x]
    BY <1>1
  <2>3. UNCHANGED <<signal, rows>> /\ disp[d].pc # "idle" /\ x.pc # "idle" /\ x.pc # "post" /\ x.ok = FALSE
    BY <1>2, <1>4
  <2>4. QED BY <1>4, <1>6, <2>1, <2>2, <2>3, Proceeds
<1>8. ASSUME NEW r \in Row
      PROVE  Balanced(r)'
  <2>1. /\ Strays(r)' \ {d} = Strays(r) \ {d}
        /\ Strays(r)' \in SUBSET Dispatcher /\ Strays(r) \in SUBSET Dispatcher
    BY <1>7, OthersStay
  <2>2. d \notin Strays(r)'
    BY <1>4, <1>7 DEF Strays
  <2>3. Made(r) => Made(r)'
    BY <1>2, <1>7 DEF Made, DispStep
  <2>4. PostsIn(posted, r) \in Nat /\ PostsIn(Append(posted, s), r) = PostsIn(posted, r) + (IF s = r THEN 1 ELSE 0)
    <3>1. posted \in Seq(Row)
      BY DEF Inv, TypesInv
    <3>2. QED BY <1>5, <3>1, PostsCount
  <2>5. Posts(r) = PostsIn(posted, r) /\ Posts(r)' = PostsIn(Append(posted, s), r)
    BY <1>1 DEF Posts, PostsIn
  <2>6. CASE r = s
    <3>1. Posts(r)' = Posts(r) + 1 /\ disturbed'[r] = disturbed[r] + 1
      BY <1>6, <2>4, <2>5, <2>6
    <3>2. QED BY <1>7, <2>1, <2>2, <2>3, <3>1, Balance
  <2>7. CASE r # s
    <3>1. Posts(r)' = Posts(r) + 0 /\ disturbed'[r] = disturbed[r]
      BY <1>6, <2>4, <2>5, <2>7
    <3>2. QED BY <1>7, <2>1, <2>2, <2>3, <3>1, Balance
  <2>8. QED BY <2>6, <2>7
<1>9. PostsInv'
  BY <1>2, <1>8 DEF PostsInv, Balanced, Row
<1>10. QED BY <1>2, <1>7, <1>9 DEF Inv, RowsStay, Row

\* A dispatcher that is done with its row, or lost.
LEMMA Ends ==
  ASSUME Inv, NEW d \in Dispatcher, NEW b, disp[d].pc # "idle", disp' = [disp EXCEPT ![d] = Idle],
         rows' = IF Mine(d) THEN [rows EXCEPT ![disp[d].row] = b] ELSE rows,
         UNCHANGED <<signal, posted>>, disturbed' \in [1..MaxRows -> Nat],
         Mine(d) => /\ b \in RowType /\ Kept(rows[disp[d].row], b) /\ b.token \notin Dispatcher
                    /\ b.token = None <=> b.status # "sending"
                    /\ b.status = "sent" => Accepted(disp[d].row),
         \A r \in Row \ {disp[d].row} : disturbed'[r] = disturbed[r],
         \/ disturbed'[disp[d].row] = disturbed[disp[d].row] + 1
         \/ /\ disturbed'[disp[d].row] = disturbed[disp[d].row]
            /\ Mine(d) /\ disp[d].pc = "complete" /\ disp[d].ok => b.status = "sent"
  PROVE  Inv' /\ RowsStay
<1> DEFINE s == disp[d].row
<1>1. s \in Row /\ DOMAIN rows = Row
  BY LenProperties DEF Inv, ClaimsInv, TypesInv, Row
<1>2. /\ rows' \in Seq(RowType) /\ Len(rows') = Len(rows)
      /\ \A r \in Row : rows'[r] = IF r = s /\ Mine(d) THEN b ELSE rows[r]
  <2>1. rows \in Seq(RowType)
    BY DEF Inv, TypesInv
  <2>2. CASE Mine(d)
    <3>1. rows' = [rows EXCEPT ![s] = b] /\ b \in RowType
      BY <2>2
    <3>2. rows' \in Seq(RowType) /\ Len(rows') = Len(rows)
      <4>1. rows \in [1..Len(rows) -> RowType] /\ Len(rows) \in Nat
        BY <2>1, LenProperties
      <4>2. rows' \in [1..Len(rows) -> RowType]
        BY <3>1, <4>1
      <4>3. QED BY <4>1, <4>2, FunIsSeq
    <3>3. QED BY <1>1, <2>2, <3>1, <3>2
  <2>3. CASE ~Mine(d)
    BY <2>1, <2>3
  <2>4. QED BY <2>2, <2>3
<1>3. disp'[d] = Idle /\ disp' \in [Dispatcher -> DispType] /\ \A e \in Dispatcher \ {d} : disp'[e] = disp[e]
  BY DEF Inv, TypesInv, DispType, Idle, Reason
<1>4. Row' = Row
  BY <1>2 DEF Row
<1>5. TypesInv'
  BY <1>2, <1>3, <1>4 DEF Inv, TypesInv, DispType
<1>6. \A r \in Row : Kept(rows[r], rows'[r]) /\ Says(rows[r], rows'[r])
  BY <1>2 DEF Kept, Says
<1>7. DispStep(d)
  BY <1>2, <1>3, <1>6 DEF DispStep
<1>8. /\ \A e \in Dispatcher \ {d} : disp[e].pc # "idle" => (Mine(e)' <=> Mine(e))
      /\ \A r \in Row : Strays(r)' \ {d} = Strays(r) \ {d}
      /\ \A r \in Row : Strays(r)' \in SUBSET Dispatcher /\ Strays(r) \in SUBSET Dispatcher
  BY <1>7, OthersStay
<1>9. \A r \in Nat : Accepted(r)' <=> Accepted(r)
  BY DEF Accepted
<1>10. ClaimsInv'
  <2>1. ASSUME NEW r \in Row
        PROVE  /\ rows'[r].token = None <=> rows'[r].status # "sending"
               /\ rows'[r].status = "sent" => Accepted(r)'
               /\ rows'[r].status = "sending" \/ Accepted(r)' => rows'[r].attempts > 0
               /\ rows'[r].token \in Dispatcher =>
                    disp'[rows'[r].token].pc # "idle" /\ disp'[rows'[r].token].row = r
    <3>1. /\ rows[r].token = None <=> rows[r].status # "sending"
          /\ rows[r].status = "sent" => Accepted(r)
          /\ rows[r].status = "sending" \/ Accepted(r) => rows[r].attempts > 0
          /\ rows[r].token \in Dispatcher => disp[rows[r].token].pc # "idle" /\ disp[rows[r].token].row = r
      BY DEF Inv, ClaimsInv
    <3>2. r \in Nat /\ (Accepted(r)' <=> Accepted(r))
      BY <1>9 DEF Row
    <3>3. CASE r = s /\ Mine(d)
      <4>1. rows'[r] = b /\ rows[r].attempts > 0 /\ b.attempts = rows[r].attempts
        BY <1>2, <3>1, <3>3 DEF Mine, Kept, Says
      <4>2. QED BY <3>2, <3>3, <4>1
    <3>4. CASE ~(r = s /\ Mine(d))
      <4>1. rows'[r] = rows[r]
        BY <1>2, <3>4
      <4>2. rows[r].token # d
        <5>1. SUFFICES ASSUME rows[r].token = d PROVE FALSE
          OBVIOUS
        <5>2. r = s /\ d # None
          BY <3>1, <5>1
        <5>3. QED BY <3>1, <3>4, <5>1, <5>2 DEF Mine
      <4>3. QED BY <1>3, <3>1, <3>2, <4>1, <4>2
    <3>5. QED BY <3>3, <3>4
  <2>2. ASSUME NEW e \in Dispatcher, disp'[e].pc # "idle"
        PROVE  /\ disp'[e].row \in Row /\ rows'[disp'[e].row].attempts > 0
               /\ disp'[e].pc = "post" => Mine(e)' \/ Excused(rows'[disp'[e].row])
               /\ disp'[e].pc = "complete" /\ disp'[e].ok => Accepted(disp[e].row)'
    <3>1. e # d /\ disp'[e] = disp[e]
      BY <1>3, <2>2 DEF Idle
    <3>2. /\ disp[e].row \in Row /\ rows[disp[e].row].attempts > 0
          /\ disp[e].pc = "post" => Mine(e) \/ Excused(rows[disp[e].row])
          /\ disp[e].pc = "complete" /\ disp[e].ok => Accepted(disp[e].row)
      BY <2>2, <3>1 DEF Inv, ClaimsInv
    <3>3. Kept(rows[disp[e].row], rows'[disp[e].row]) /\ disp[e].row \in Nat
      BY <1>6, <3>2 DEF Row
    <3>4. Accepted(disp[e].row)' <=> Accepted(disp[e].row)
      BY <3>1 DEF Accepted
    <3>5. QED BY <1>8, <2>2, <3>1, <3>2, <3>3, <3>4 DEF Kept, Says, Excused
  <2>3. \A e \in Dispatcher : disp'[e].pc # "idle" => disp'[e] = disp[e]
    BY <1>3 DEF Idle
  <2>4. QED BY <1>4, <2>1, <2>2, <2>3 DEF ClaimsInv
<1>11. RecoveryInv' /\ OrderInv'
  <2>1. posted' = posted /\ Row \subseteq Row' /\ Row' \subseteq Row /\ signal' = signal
    BY <1>4
  <2>2. \A e \in Dispatcher : disp'[e].pc = "post" => disp[e].pc = "post" /\ disp'[e].row = disp[e].row
    BY <1>3 DEF Idle
  <2>3. \A r \in Row : rows'[r].status \in Undelivered => rows[r].status \in Undelivered
    BY <1>2 DEF Mine, Undelivered
  <2>4. ASSUME NEW r \in Row, rows'[r].transition = "recovered", rows'[r].status \in Undelivered
        PROVE  signal.exists /\ rows'[r].since <= signal.openedAt
    BY <1>6, <2>3, <2>4 DEF Inv, RecoveryInv, Kept, Says
  <2>5. RecoveryInv'
    BY <1>6, <2>1, <2>2, <2>4, RecoveryKept
  <2>6. ASSUME NEW r \in Row, rows'[r].status \in Undelivered, ~rows'[r].released
        PROVE  /\ signal.exists /\ rows'[r].occurred <= signal.lastSeen
               /\ \A t \in Row : r < t => /\ rows'[r].occurred <= rows'[t].occurred
                                          /\ rows'[t].attempts > 0 => rows'[r].recalled
    BY <1>6, <2>3, <2>6 DEF Inv, OrderInv, Kept, Says
  <2>7. OrderInv'
    BY <1>4, <1>6, <2>1, <2>6, OrderKept
  <2>8. QED BY <2>5, <2>7
<1>12. ASSUME NEW r \in Row
       PROVE  Balanced(r)'
  <2>1. d \notin Strays(r)'
    BY <1>3 DEF Strays, Idle
  <2>2. Posts(r)' = Posts(r) + 0
    <3>1. posted \in Seq(Row) /\ Posts(r) = PostsIn(posted, r) /\ Posts(r)' = Posts(r)
      BY DEF Inv, TypesInv, Posts, PostsIn
    <3>2. QED BY <3>1, PostsCount
  <2>3. CASE r = s /\ disturbed'[s] = disturbed[s] + 1
    BY <1>5, <1>8, <2>1, <2>2, <2>3, Balance
  <2>4. CASE ~(r = s /\ disturbed'[s] = disturbed[s] + 1)
    <3>1. disturbed'[r] = disturbed[r]
      BY <2>4
    <3>2. ASSUME Made(r)
          PROVE  Made(r)'
      <4>1. CASE rows[r].status = "sent"
        BY <1>2, <4>1 DEF Made, Mine
      <4>2. CASE \E e \in Dispatcher : disp[e].pc = "complete" /\ disp[e].ok /\ disp[e].row = r /\ Mine(e)
        <5>1. PICK e \in Dispatcher : disp[e].pc = "complete" /\ disp[e].ok /\ disp[e].row = r /\ Mine(e)
          BY <4>2
        <5>2. CASE e # d
          BY <1>3, <1>8, <5>1, <5>2 DEF Made
        <5>3. CASE e = d
          BY <1>2, <2>4, <5>1, <5>3 DEF Made
        <5>4. QED BY <5>2, <5>3
      <4>3. QED BY <3>2, <4>1, <4>2 DEF Made
    <3>3. QED BY <1>5, <1>8, <2>1, <2>2, <3>1, <3>2, Balance
  <2>5. QED BY <2>3, <2>4
<1>13. PostsInv'
  BY <1>4, <1>12 DEF PostsInv, Balanced
<1>14. RowsStay
  BY <1>4, <1>6 DEF RowsStay, IsAlert, Says
<1>15. QED BY <1>5, <1>10, <1>11, <1>13, <1>14 DEF Inv

LEMMA SuppressRowStep ==
  ASSUME Inv, NEW d \in Dispatcher, SuppressRow(d)
  PROVE  Inv' /\ RowsStay
<1> DEFINE s == disp[d].row
           b == [rows[s] EXCEPT !.status = "suppressed", !.reason = disp[d].reason, !.token = None,
                                !.due = TRUE, !.recalled = @ \/ rows[s].status = "sending"]
<1>1. /\ disp[d].pc = "suppress" /\ disp' = [disp EXCEPT ![d] = Idle]
      /\ rows' = IF Mine(d) THEN Suppress(rows, {s}, disp[d].reason) ELSE rows
      /\ UNCHANGED <<signal, posted, disturbed>>
  BY DEF SuppressRow, DispFrame
<1>2. s \in Row /\ DOMAIN rows = Row /\ disp[d].reason \in Reason
  BY <1>1, LenProperties DEF Inv, ClaimsInv, TypesInv, Row
<1>3. Suppress(rows, {s}, disp[d].reason) = [rows EXCEPT ![s] = b]
  <2>1. rows \in [Row -> RowType]
    BY LenProperties DEF Inv, TypesInv, Row
  <2>2. Suppress(rows, {s}, disp[d].reason) = [r \in Row |-> IF r = s THEN b ELSE rows[r]]
    BY <1>2 DEF Suppress
  <2>3. QED BY <1>2, <2>1, <2>2
<1>4. b \in RowType /\ TakenOut(rows[s], b) /\ Claimable(b)
  BY <1>2, RowTyped, SuppressedRow
<1> HIDE DEF b
<1>5. Mine(d) => /\ b \in RowType /\ Kept(rows[s], b) /\ b.token \notin Dispatcher
                 /\ b.token = None <=> b.status # "sending"
                 /\ b.status = "sent" => Accepted(s)
  BY <1>4 DEF TakenOut, Claimable
<1>6. rows' = IF Mine(d) THEN [rows EXCEPT ![s] = b] ELSE rows
  BY <1>1, <1>3
<1>7. disturbed' \in [1..MaxRows -> Nat]
  BY <1>1 DEF Inv, TypesInv
<1>8. QED BY <1>1, <1>5, <1>6, <1>7, Ends

LEMMA CompleteStep ==
  ASSUME Inv, NEW d \in Dispatcher, Complete(d)
  PROVE  Inv' /\ RowsStay
<1> DEFINE s == disp[d].row
           b == Completed(rows[s], disp[d].ok)
<1>1. /\ disp[d].pc = "complete" /\ disp' = [disp EXCEPT ![d] = Idle]
      /\ rows' = IF Mine(d) THEN [rows EXCEPT ![s] = b] ELSE rows
      /\ UNCHANGED <<signal, posted, disturbed>>
  BY DEF Complete, DispFrame
<1>2. s \in Row
  BY <1>1 DEF Inv, ClaimsInv
<1>3. /\ b \in RowType /\ Kept(rows[s], b) /\ b.token = None
      /\ b.status = IF disp[d].ok THEN "sent" ELSE IF rows[s].attempts >= MaxAttempts THEN "failed" ELSE "retry"
  <2>1. rows[s] \in RowType
    BY <1>2, RowTyped
  <2>2. CASE disp[d].ok
    BY <2>1, <2>2 DEF Completed, RowType, Statuses, Tokens, Kept, Says
  <2>3. CASE ~disp[d].ok /\ rows[s].attempts >= MaxAttempts
    BY <2>1, <2>3 DEF Completed, RowType, Statuses, Tokens, Kept, Says
  <2>4. CASE ~disp[d].ok /\ ~(rows[s].attempts >= MaxAttempts)
    BY <2>1, <2>4 DEF Completed, RowType, Statuses, Undelivered, Waiting, Tokens, Kept, Says
  <2>5. QED BY <2>2, <2>3, <2>4
<1>4. disp[d].ok => Accepted(s)
  BY <1>1 DEF Inv, ClaimsInv
<1> HIDE DEF b
<1>5. Mine(d) => /\ b \in RowType /\ Kept(rows[s], b) /\ b.token \notin Dispatcher
                 /\ b.token = None <=> b.status # "sending"
                 /\ b.status = "sent" => Accepted(s)
  BY <1>3, <1>4
<1>6. disp[d].ok => b.status = "sent"
  BY <1>3
<1>7. disturbed' \in [1..MaxRows -> Nat]
  BY <1>1 DEF Inv, TypesInv
<1>8. QED BY <1>1, <1>5, <1>6, <1>7, Ends

LEMMA LostStep ==
  ASSUME Inv, NEW d \in Dispatcher, Lost(d)
  PROVE  Inv' /\ RowsStay
<1> DEFINE s == disp[d].row
           b == [rows[s] EXCEPT !.token = "lost"]
<1>1. /\ disp[d].pc # "idle" /\ disp' = [disp EXCEPT ![d] = Idle] /\ Disturb({s})
      /\ rows' = IF Mine(d) THEN [rows EXCEPT ![s].token = "lost"] ELSE rows
      /\ UNCHANGED <<signal, posted>>
  BY DEF Lost, DispFrame
<1>2. s \in Row
  BY <1>1 DEF Inv, ClaimsInv
<1>3. /\ disturbed' \in [1..MaxRows -> Nat]
      /\ \A r \in Row : disturbed'[r] = IF r = s THEN disturbed[r] + 1 ELSE disturbed[r]
  <2>1. \A r \in Row : disturbed'[r] = disturbed[r] + (IF r \in {s} THEN 1 ELSE 0)
    BY <1>1, BlamedCounts
  <2>2. disturbed' \in [1..MaxRows -> Nat]
    BY <1>1, BlamedCounts
  <2>3. \A r \in Row : disturbed[r] \in Nat
    BY RowsAreFew DEF Inv, TypesInv
  <2>4. QED BY <2>1, <2>2, <2>3
<1>4. b \in RowType /\ Kept(rows[s], b) /\ b.token = "lost" /\ b.status = rows[s].status
  BY <1>2, RowTyped DEF RowType, Tokens, Kept, Says
<1>5. rows' = IF Mine(d) THEN [rows EXCEPT ![s] = b] ELSE rows
  BY <1>1
<1> HIDE DEF b
<1>6. Mine(d) => /\ b \in RowType /\ Kept(rows[s], b) /\ b.token \notin Dispatcher
                 /\ b.token = None <=> b.status # "sending"
                 /\ b.status = "sent" => Accepted(s)
  BY <1>4 DEF Mine, None
<1>7. disturbed'[s] = disturbed[s] + 1 /\ \A r \in Row \ {s} : disturbed'[r] = disturbed[r]
  BY <1>2, <1>3
<1>8. QED BY <1>1, <1>3, <1>5, <1>6, <1>7, Ends

-----------------------------------------------------------------------------
(* Claims and the time they take *)

\* What was delivered stays so and a claim that a dispatcher has stays with it, unless the claim
\* is to blame, and what comes back to delivery is an alert that counts as released.
Touch(a, b, blamed) ==
  /\ Kept(a, b)
  /\ b.token = None <=> b.status # "sending"
  /\ b.status = "sent" => a.status = "sent"
  /\ a.status = "sent" => blamed \/ b.status = "sent"
  /\ b.status = "sending" => a.status = "sending"
  /\ b.token # a.token => /\ b.token \notin Dispatcher
                          /\ a.token \in Dispatcher => blamed /\ Excused(b)
  /\ b.status \in Undelivered => a.status \in Undelivered \/ (b.released /\ IsAlert(b))

Picks(d, r, rs) ==
  /\ disp[d].pc = "idle"
  /\ rs[r].status \in {"pending", "retry"}
  /\ \A k \in Row \ {r} : rs[k].status \in Undelivered => ~Before(rs, k, r)
  /\ rows' = [rs EXCEPT ![r].status = "sending", ![r].token = d, ![r].due = FALSE,
                        ![r].attempts = @ + 1]
  /\ disp' = [disp EXCEPT ![d] = [Idle EXCEPT !.pc = "gate", !.row = r]]

\* No dispatcher, or one, picks a row of those that were touched.
LEMMA Touched ==
  ASSUME Inv, NEW rs \in Seq(RowType), NEW T, Len(rs) = Len(rows),
         \A k \in Row : Touch(rows[k], rs[k], k \in T),
         UNCHANGED <<signal, posted>>, disturbed' \in [1..MaxRows -> Nat],
         \A k \in Row : disturbed'[k] = disturbed[k] + (IF k \in T THEN 1 ELSE 0),
         \/ rows' = rs /\ disp' = disp
         \/ \E d \in Dispatcher, r \in Row : Picks(d, r, rs)
  PROVE  Inv' /\ RowsStay
<1>1. PICK d, p : \/ rows' = rs /\ disp' = disp /\ d \notin Dispatcher /\ p \notin Row
                  \/ d \in Dispatcher /\ p \in Row /\ Picks(d, p, rs)
  <2>1. CASE rows' = rs /\ disp' = disp
    <3>1. None \notin Dispatcher /\ 0 \notin Row
      BY DEF Row
    <3>2. QED BY <2>1, <3>1
  <2>2. CASE \E d \in Dispatcher, r \in Row : Picks(d, r, rs)
    BY <2>2
  <2>3. QED BY <2>1, <2>2
<1>2. /\ rs \in [Row -> RowType] /\ Len(rows) \in Nat /\ DOMAIN rs = Row
      /\ \A k \in Row : rows[k] \in RowType /\ rs[k] \in RowType
  BY RowTyped, LenProperties DEF Inv, TypesInv, Row
<1>3. /\ rows' \in Seq(RowType) /\ Len(rows') = Len(rows)
      /\ \A k \in Row \ {p} : rows'[k] = rs[k]
      /\ p \in Row => rows'[p] = [rs[p] EXCEPT !.status = "sending", !.token = d, !.due = FALSE,
                                              !.attempts = @ + 1]
  <2>1. CASE rows' = rs /\ disp' = disp /\ d \notin Dispatcher /\ p \notin Row
    BY <2>1
  <2>2. CASE d \in Dispatcher /\ p \in Row /\ Picks(d, p, rs)
    <3> DEFINE b == [rs[p] EXCEPT !.status = "sending", !.token = d, !.due = FALSE, !.attempts = @ + 1]
    <3>1. rows' = [rs EXCEPT ![p] = b]
      BY <2>2 DEF Picks
    <3>2. rs[p] \in RowType
      BY <1>2, <2>2
    <3>3. b \in RowType
      <4>1. rs[p].attempts + 1 \in Nat /\ d \in Tokens /\ "sending" \in Statuses
        BY <2>2, <3>2 DEF RowType, Statuses, Undelivered, Tokens
      <4>2. QED BY <3>2, <4>1 DEF RowType
    <3> HIDE DEF b
    <3>4. rows' \in [1..Len(rows) -> RowType]
      BY <1>2, <3>1, <3>3 DEF Row
    <3>5. rows' \in Seq(RowType) /\ Len(rows') = Len(rows)
      BY <1>2, <3>4, FunIsSeq
    <3>6. QED BY <1>2, <2>2, <3>1, <3>5 DEF b
  <2>3. QED BY <1>1, <2>1, <2>2
<1>4. /\ disp' \in [Dispatcher -> DispType]
      /\ \A e \in Dispatcher \ {d} : disp'[e] = disp[e]
      /\ d \in Dispatcher => /\ disp[d].pc = "idle" /\ p \in Row
                             /\ disp'[d].pc = "gate" /\ disp'[d].row = p
                             /\ rs[p].status \in {"pending", "retry"}
                             /\ \A k \in Row \ {p} : rs[k].status \in Undelivered => ~Before(rs, k, p)
      /\ p \in Row => d \in Dispatcher
  <2>1. disp \in [Dispatcher -> DispType]
    BY DEF Inv, TypesInv, DispType
  <2>2. CASE rows' = rs /\ disp' = disp /\ d \notin Dispatcher /\ p \notin Row
    BY <2>1, <2>2
  <2>3. CASE d \in Dispatcher /\ p \in Row /\ Picks(d, p, rs)
    <3> DEFINE x == [Idle EXCEPT !.pc = "gate", !.row = p]
    <3>1. x \in DispType /\ x.pc = "gate" /\ x.row = p
      <4>1. p \in Nat
        BY <1>2, <2>3 DEF Row
      <4>2. QED BY <4>1 DEF Idle, DispType, Reason
    <3>2. /\ disp' = [disp EXCEPT ![d] = x] /\ disp[d].pc = "idle"
          /\ rs[p].status \in {"pending", "retry"}
          /\ \A k \in Row \ {p} : rs[k].status \in Undelivered => ~Before(rs, k, p)
      BY <2>3 DEF Picks
    <3> HIDE DEF x
    <3>3. disp' \in [Dispatcher -> DispType] /\ disp'[d] = x /\ \A e \in Dispatcher \ {d} : disp'[e] = disp[e]
      BY <2>1, <2>3, <3>1, <3>2
    <3>4. QED BY <2>3, <3>1, <3>2, <3>3
  <2>4. QED BY <1>1, <2>2, <2>3
<1>5. \A k \in Row \ {p} : Touch(rows[k], rows'[k], k \in T)
  BY <1>3
<1>6. p \in Row => /\ Touch(rows[p], rs[p], p \in T) /\ rows[p] \in RowType /\ rs[p] \in RowType
                   /\ rs[p].status \in {"pending", "retry"} /\ d \in Dispatcher
                   /\ rows'[p].transition = rs[p].transition /\ rows'[p].occurred = rs[p].occurred
                   /\ rows'[p].since = rs[p].since /\ rows'[p].released = rs[p].released
                   /\ rows'[p].recalled = rs[p].recalled /\ rows'[p].attempts = rs[p].attempts + 1
                   /\ rows'[p].status = "sending" /\ rows'[p].token = d
  BY <1>2, <1>3, <1>4 DEF RowType
<1>7. p \in Row => /\ rs[p].status \in Undelivered /\ rs[p].token = None
                   /\ rows[p].status = "sent" => p \in T
                   /\ rows[p].token \in Dispatcher => p \in T /\ Excused(rows'[p])
  <2> SUFFICES ASSUME p \in Row PROVE /\ rs[p].status \in Undelivered /\ rs[p].token = None
                                      /\ rows[p].status = "sent" => p \in T
                                      /\ rows[p].token \in Dispatcher => p \in T /\ Excused(rows'[p])
    OBVIOUS
  <2>1. rs[p].status \in Undelivered /\ rs[p].token = None
    BY <1>6 DEF Touch, Undelivered, Waiting
  <2>2. rows[p].token \in Dispatcher => p \in T /\ Excused(rs[p])
    BY <1>6, <2>1 DEF Touch
  <2>3. rows[p].status = "sent" => p \in T
    BY <1>6 DEF Touch
  <2>4. QED BY <1>6, <2>1, <2>2, <2>3 DEF Excused
<1>8. ASSUME NEW k \in Row
      PROVE  /\ Says(rows[k], rows'[k])
             /\ rows'[k].attempts = rows[k].attempts + (IF k = p THEN 1 ELSE 0)
             /\ rows[k].attempts \in Nat
             /\ rows'[k].status \in Undelivered => rows[k].status \in Undelivered \/ (rows'[k].released /\ IsAlert(rows'[k]))
  <2>1. rows[k].attempts \in Nat
    BY <1>2 DEF RowType
  <2>2. CASE k = p
    BY <1>6, <1>7, <2>1, <2>2 DEF Touch, Kept, Says, IsAlert
  <2>3. CASE k # p
    BY <1>5, <2>1, <2>3 DEF Touch, Kept
  <2>4. QED BY <2>2, <2>3
<1>9. Row' = Row
  BY <1>3 DEF Row
<1>10. \A e \in Dispatcher : disp[e].pc # "idle" =>
         /\ disp'[e] = disp[e] /\ e # d
         /\ Mine(e)' => Mine(e)
         /\ Mine(e) => Mine(e)' \/ (disp[e].row \in T /\ Excused(rows'[disp[e].row]))
  <2> SUFFICES ASSUME NEW e \in Dispatcher, disp[e].pc # "idle"
               PROVE  /\ disp'[e] = disp[e] /\ e # d
                      /\ Mine(e)' => Mine(e)
                      /\ Mine(e) => Mine(e)' \/ (disp[e].row \in T /\ Excused(rows'[disp[e].row]))
    OBVIOUS
  <2>1. disp[e].row \in Row /\ disp'[e] = disp[e] /\ e # d
    BY <1>4 DEF Inv, ClaimsInv
  <2>2. CASE disp[e].row = p
    BY <1>6, <1>7, <2>1, <2>2 DEF Mine
  <2>3. CASE disp[e].row # p
    <3>1. Touch(rows[disp[e].row], rows'[disp[e].row], disp[e].row \in T)
      BY <1>5, <2>1, <2>3
    <3>2. e # None
      OBVIOUS
    <3>3. QED BY <2>1, <3>1, <3>2 DEF Mine, Touch
  <2>4. QED BY <2>2, <2>3
<1>11. TypesInv'
  BY <1>3, <1>4, <1>9 DEF Inv, TypesInv, DispType
<1>12. \A k \in Nat : Accepted(k)' <=> Accepted(k)
  BY DEF Accepted
<1>13. ClaimsInv'
  <2>1. ASSUME NEW k \in Row
        PROVE  /\ rows'[k].token = None <=> rows'[k].status # "sending"
               /\ rows'[k].status = "sent" => Accepted(k)'
               /\ rows'[k].status = "sending" \/ Accepted(k)' => rows'[k].attempts > 0
               /\ rows'[k].token \in Dispatcher =>
                    disp'[rows'[k].token].pc # "idle" /\ disp'[rows'[k].token].row = k
    <3>1. /\ rows[k].status = "sent" => Accepted(k)
          /\ rows[k].status = "sending" \/ Accepted(k) => rows[k].attempts > 0
          /\ rows[k].token \in Dispatcher => disp[rows[k].token].pc # "idle" /\ disp[rows[k].token].row = k
      BY DEF Inv, ClaimsInv
    <3>2. Accepted(k)' <=> Accepted(k)
      BY <1>12 DEF Row
    <3>3. CASE k = p
      <4>1. rows'[k].attempts > 0
        BY <1>8, <3>3
      <4>2. QED BY <1>4, <1>6, <3>3, <4>1
    <3>4. CASE k # p
      <4>1. Touch(rows[k], rows'[k], k \in T)
        BY <1>5, <3>4
      <4>2. rows'[k].attempts = rows[k].attempts
        BY <4>1 DEF Touch, Kept
      <4>3. rows'[k].token \in Dispatcher => rows'[k].token = rows[k].token /\ rows[k].token # d
        BY <1>4, <3>1, <4>1 DEF Touch
      <4>4. rows'[k].token \in Dispatcher => disp'[rows'[k].token] = disp[rows[k].token]
        BY <1>4, <4>3
      <4>5. QED BY <3>1, <3>2, <4>1, <4>2, <4>3, <4>4 DEF Touch
    <3>5. QED BY <3>3, <3>4
  <2>2. ASSUME NEW e \in Dispatcher, disp'[e].pc # "idle"
        PROVE  /\ disp'[e].row \in Row /\ rows'[disp'[e].row].attempts > 0
               /\ disp'[e].pc = "post" => Mine(e)' \/ Excused(rows'[disp'[e].row])
               /\ disp'[e].pc = "complete" /\ disp'[e].ok => Accepted(disp[e].row)'
    <3>1. CASE e = d
      <4>1. disp'[e].row = p /\ p \in Row /\ disp'[e].pc = "gate"
        BY <1>4, <3>1
      <4>2. rows'[p].attempts > 0
        BY <1>8, <4>1
      <4>3. QED BY <4>1, <4>2
    <3>2. CASE e # d
      <4>1. disp'[e] = disp[e]
        BY <1>4, <3>2
      <4>2. /\ disp[e].row \in Row /\ rows[disp[e].row].attempts > 0
            /\ disp[e].pc = "post" => Mine(e) \/ Excused(rows[disp[e].row])
            /\ disp[e].pc = "complete" /\ disp[e].ok => Accepted(disp[e].row)
        BY <2>2, <4>1 DEF Inv, ClaimsInv
      <4>3. Accepted(disp[e].row)' <=> Accepted(disp[e].row)
        BY <4>1 DEF Accepted
      <4>4. Mine(e) => Mine(e)' \/ Excused(rows'[disp[e].row])
        BY <1>10, <2>2, <4>1
      <4>5. Says(rows[disp[e].row], rows'[disp[e].row])
        BY <1>8, <4>2
      <4>6. rows'[disp[e].row].attempts > 0
        BY <1>8, <4>2
      <4>7. Excused(rows[disp[e].row]) => Excused(rows'[disp[e].row])
        BY <4>5 DEF Says, Excused
      <4>8. QED BY <4>1, <4>2, <4>3, <4>4, <4>6, <4>7
    <3>3. QED BY <3>1, <3>2
  <2>3. \A e \in Dispatcher : disp'[e].pc = "complete" => disp'[e] = disp[e]
    BY <1>4
  <2>4. QED BY <1>9, <2>1, <2>2, <2>3 DEF ClaimsInv
<1>14. ASSUME NEW r \in Row
       PROVE  Balanced(r)'
  <2>1. \A e \in Dispatcher : disp'[e].pc \in {"post", "complete"} => disp'[e] = disp[e]
    BY <1>4
  <2>2. \A e \in Dispatcher : disp[e].pc \in {"post", "complete"} => disp'[e] = disp[e]
    BY <1>10
  <2>3. \A e \in Dispatcher : disp[e].pc # "idle" /\ disp[e].row = r =>
          (Mine(e)' => Mine(e)) /\ (Mine(e) => r \in T \/ Mine(e)')
    BY <1>10
  <2>4. rows[r].status = "sent" => r \in T \/ rows'[r].status = "sent"
    <3>1. CASE r = p
      BY <1>7, <3>1
    <3>2. CASE r # p
      BY <1>5, <3>2 DEF Touch
    <3>3. QED BY <3>1, <3>2
  <2>5. (r \in T) \in BOOLEAN
    OBVIOUS
  <2>6. QED BY <2>1, <2>2, <2>3, <2>4, <2>5, BalanceTaken
<1>15. PostsInv'
  BY <1>9, <1>14 DEF PostsInv, Balanced
<1>16. RecoveryInv' /\ OrderInv'
  <2>1. posted' = posted /\ Row \subseteq Row' /\ Row' \subseteq Row /\ signal' = signal
    BY <1>9
  <2>2. \A e \in Dispatcher : disp'[e].pc = "post" => disp[e].pc = "post" /\ disp'[e].row = disp[e].row
    BY <1>4
  <2>3. ASSUME NEW r \in Row, rows'[r].transition = "recovered", rows'[r].status \in Undelivered
        PROVE  signal.exists /\ rows'[r].since <= signal.openedAt
    <3>1. rows[r].status \in Undelivered
      BY <1>8, <2>3 DEF IsAlert, Alert
    <3>2. QED BY <1>8, <2>3, <3>1 DEF Inv, RecoveryInv, Says
  <2>4. \A r \in Row : Says(rows[r], rows'[r])
    BY <1>8
  <2>5. RecoveryInv'
    BY <2>1, <2>2, <2>3, <2>4, RecoveryKept
  <2>6. ASSUME NEW r \in Row, rows'[r].status \in Undelivered, ~rows'[r].released
        PROVE  /\ signal.exists /\ rows'[r].occurred <= signal.lastSeen
               /\ \A t \in Row : r < t => /\ rows'[r].occurred <= rows'[t].occurred
                                          /\ rows'[t].attempts > 0 => rows'[r].recalled
    <3>1. rows[r].status \in Undelivered /\ ~rows[r].released
      BY <1>8, <2>6 DEF Says
    <3>2. /\ signal.exists /\ rows[r].occurred <= signal.lastSeen
          /\ \A t \in Row : r < t => /\ rows[r].occurred <= rows[t].occurred
                                     /\ rows[t].attempts > 0 => rows[r].recalled
      BY <3>1 DEF Inv, OrderInv
    <3>3. ASSUME NEW t \in Row, r < t, rows'[t].attempts > 0
          PROVE  rows'[r].recalled
      <4>1. CASE t # p
        BY <1>8, <3>2, <3>3, <4>1 DEF Says
      <4>2. CASE t = p
        <5>1. r # p /\ r \in Nat /\ p \in Nat
          BY <3>3, <4>2 DEF Row
        <5>2. rows'[r] = rs[r] /\ ~Before(rs, r, p)
          BY <1>3, <1>4, <2>6, <4>2, <5>1
        <5>3. rs[r].occurred = rows[r].occurred /\ rs[p].occurred = rows[p].occurred
          BY <4>2 DEF Touch, Kept, Says
        <5>4. rows[r].occurred <= rows[p].occurred /\ rows[r].occurred \in Nat /\ rows[p].occurred \in Nat
          BY <1>2, <3>2, <3>3, <4>2 DEF RowType
        <5>5. QED BY <3>3, <4>2, <5>1, <5>2, <5>3, <5>4 DEF Before
      <4>3. QED BY <4>1, <4>2
    <3>4. QED BY <1>8, <3>2, <3>3 DEF Says
  <2>7. OrderInv'
    BY <1>9, <2>1, <2>4, <2>6, OrderKept
  <2>8. QED BY <2>5, <2>7
<1>17. RowsStay
  BY <1>8, <1>9 DEF RowsStay, Says, IsAlert
<1>18. QED BY <1>11, <1>13, <1>15, <1>16, <1>17 DEF Inv

LEMMA GoodRows == Inv => Good(rows) /\ Row = 1..Len(rows) /\ rows \in Seq(RowType)
BY LenProperties DEF Inv, TypesInv, ClaimsInv, Good, Claimable, Row

\* The statements of a claim, up to one of them.
LEMMA Prepares ==
  ASSUME Inv, NEW d \in Dispatcher, NEW rs, PrepAll(rows, rs, Forgotten(d)), Disturb(Forgotten(d)),
         UNCHANGED <<signal, posted>>,
         \/ rows' = rs /\ disp' = disp
         \/ \E r \in Row : Picks(d, r, rs)
  PROVE  Inv' /\ RowsStay
<1>1. Good(rows) /\ Row = 1..Len(rows)
  BY GoodRows
<1>2. rs \in Seq(RowType) /\ Len(rs) = Len(rows)
  BY DEF PrepAll
<1>3. ASSUME NEW k \in Row
      PROVE  Touch(rows[k], rs[k], k \in Forgotten(d))
  <2>1. Claimable(rows[k]) /\ Claimable(rs[k]) /\ Prep(rows[k], rs[k], k \in Forgotten(d))
    BY <1>1 DEF Good, PrepAll
  <2>2. CASE rs[k] = rows[k]
    BY <2>1, <2>2 DEF Prep, Claimable, Touch
  <2>3. CASE rs[k] # rows[k]
    BY <2>1, <2>3 DEF Prep, Claimable, Touch
  <2>4. QED BY <2>2, <2>3
<1>4. /\ disturbed' \in [1..MaxRows -> Nat]
      /\ \A k \in Row : disturbed'[k] = disturbed[k] + (IF k \in Forgotten(d) THEN 1 ELSE 0)
  BY BlamedCounts
<1>5. QED BY <1>2, <1>3, <1>4, Touched

\* What a claim has looked at stays as it looked, but for the status.
LEMMA LooksKept ==
  ASSUME LooksInv, RowsStay, looked' = looked
  PROVE  LooksInv'
BY DEF LooksInv, RowsStay

LEMMA ClaimStep ==
  ASSUME Inv, LooksInv, NEW d \in Dispatcher, Claim(d)
  PROVE  Inv' /\ RowsStay /\ LooksInv'
<1> DEFINE rs == Prepared(d)
<1>1. PrepAll(rows, rs, Forgotten(d))
  BY GoodRows, PreparedRows
<1> HIDE DEF rs
<1>2. DOMAIN rs = Row
  BY <1>1, GoodRows, LenProperties DEF PrepAll
<1>3. \/ rows' = rs /\ disp' = disp
      \/ \E r \in Row : Picks(d, r, rs)
  <2>1. CASE Deliverable(rs) = {}
    BY <2>1 DEF Claim, rs
  <2>2. CASE Deliverable(rs) # {}
    <3>1. PICK r \in Deliverable(rs) :
            /\ rows' = [rs EXCEPT ![r].status = "sending", ![r].token = d, ![r].due = FALSE,
                                  ![r].attempts = @ + 1]
            /\ disp' = [disp EXCEPT ![d] = [Idle EXCEPT !.pc = "gate", !.row = r]]
      BY <2>2 DEF Claim, rs
    <3>2. /\ r \in Row /\ rs[r].status \in {"pending", "retry"}
          /\ \A k \in Row \ {r} : rs[k].status \in Undelivered => ~Before(rs, k, r)
      BY <1>2, <3>1 DEF Deliverable, InStatus, Waiting
    <3>3. Picks(d, r, rs)
      BY <3>1, <3>2 DEF Picks, Claim, Claiming
    <3>4. QED BY <3>2, <3>3
  <2>3. QED BY <2>1, <2>2
<1>4. Disturb(Forgotten(d)) /\ UNCHANGED <<signal, posted>> /\ looked' = [looked EXCEPT ![d] = Nothing]
  BY DEF Claim, Claiming, ClaimFrame
<1>5. Inv' /\ RowsStay
  BY <1>1, <1>3, <1>4, Prepares
<1>6. LooksInv'
  BY <1>4, <1>5 DEF LooksInv, RowsStay, Nothing, Reason
<1>7. QED BY <1>5, <1>6

LEMMA LooksStep ==
  ASSUME Inv, LooksInv, NEW d \in Dispatcher, Looks(d)
  PROVE  Inv' /\ RowsStay /\ LooksInv'
<1>1. CASE ClaimLooks(d)
  <2>1. /\ Disturb(Forgotten(d)) /\ UNCHANGED <<signal, disp, posted>> /\ rows' = TimedOut(rows)
        /\ looked[d].at = None
        /\ looked' = [looked EXCEPT ![d] = [at |-> "mute", rows |-> InStatus(rows', Waiting),
                                            reason |-> SuppressionReason]]
    BY <1>1 DEF ClaimLooks, Claiming, ClaimFrame
  <2>2. PrepAll(rows, rows', Forgotten(d))
    BY <2>1, GoodRows, TimedOutPrep DEF Forgotten
  <2>3. Inv' /\ RowsStay
    BY <2>1, <2>2, Prepares
  <2>4. InStatus(rows', Waiting) \in SUBSET Nat
    <3>1. rows' \in Seq(RowType')
      BY <2>3 DEF Inv, TypesInv
    <3>2. DOMAIN rows' \subseteq Nat
      BY <3>1
    <3>3. QED BY <3>2 DEF InStatus
  <2>5. LooksInv'
    BY <2>1, <2>3, <2>4, Reasons DEF LooksInv, RowsStay
  <2>6. QED BY <2>3, <2>5
<1>2. CASE ClaimFrees(d)
  <2>1. /\ Disturb(Forgotten(d)) /\ UNCHANGED <<signal, disp, posted>> /\ rows' = Cleared(d)
        /\ looked[d].at # "release"
        /\ looked' = [looked EXCEPT ![d] = [at |-> "release", rows |-> Releasable(rows'), reason |-> None]]
    BY <1>2 DEF ClaimFrees, Claiming, ClaimFrame
  <2>2. PrepAll(rows, rows', Forgotten(d))
    BY <2>1, GoodRows, ClearedRows
  <2>3. Inv' /\ RowsStay
    BY <2>1, <2>2, Prepares
  <2>4. /\ Releasable(rows') \in SUBSET Nat
        /\ \A r \in Releasable(rows') : r \in Row' /\ IsAlert(rows'[r])
    <3>1. DOMAIN rows' = Row' /\ Row' \subseteq Nat
      BY <2>3, LenProperties DEF Inv, TypesInv, Row
    <3>2. QED BY <3>1 DEF Releasable, InStatus
  <2>5. LooksInv'
    BY <2>1, <2>3, <2>4 DEF LooksInv, RowsStay, Reason
  <2>6. QED BY <2>3, <2>5
<1>3. QED BY <1>1, <1>2 DEF Looks

LEMMA PassesStep ==
  ASSUME Inv, NEW r, Passes(r)
  PROVE  Inv' /\ RowsStay
<1> DEFINE b == [rows[r] EXCEPT !.due = TRUE]
<1>1. /\ r \in Row /\ UNCHANGED <<signal, disp, posted, disturbed>>
      /\ rows' = [rows EXCEPT ![r] = b]
  BY DEF Passes, ClaimAges, BackoffEnds
<1>2. /\ b \in RowType /\ Kept(rows[r], b) /\ b.status = rows[r].status
      /\ b.released = rows[r].released /\ b.token = rows[r].token
  BY <1>1, RowTyped DEF RowType, Kept, Says
<1> HIDE DEF b
<1>3. rows \in [1..Len(rows) -> RowType] /\ rows \in Seq(RowType) /\ Len(rows) \in Nat /\ Row = 1..Len(rows)
  BY LenProperties DEF Inv, TypesInv, Row
<1>4. \A k \in Row : rows'[k] = rows[k] \/ (k = r /\ rows'[k] = b)
  BY <1>1, <1>3
<1>5. rows' \in Seq(RowType) /\ Len(rows') = Len(rows)
  <2>1. rows' \in [1..Len(rows) -> RowType]
    BY <1>1, <1>2, <1>3
  <2>2. QED BY <1>3, <2>1, FunIsSeq
<1>6. \A k \in Row : rows[k].token = None <=> rows[k].status # "sending"
  BY DEF Inv, ClaimsInv
<1>7. Touch(rows[r], b, r \in {})
  BY <1>1, <1>2, <1>6 DEF Touch
<1>8. \A k \in Row : Touch(rows[k], rows[k], k \in {})
  BY <1>6 DEF Touch, Kept, Says
<1>9. \A k \in Row : Touch(rows[k], rows'[k], k \in {})
  BY <1>4, <1>7, <1>8
<1>10. /\ disturbed' \in [1..MaxRows -> Nat]
       /\ \A k \in Row : disturbed'[k] = disturbed[k] + (IF k \in {} THEN 1 ELSE 0)
  BY <1>1, RowsAreFew DEF Inv, TypesInv
<1>11. QED BY <1>1, <1>5, <1>9, <1>10, Touched

LEMMA SetMutedStep ==
  ASSUME Inv, UNCHANGED <<signal, rows, disp, posted, disturbed>>
  PROVE  Inv' /\ RowsStay
<1>1. TypesInv'
  BY DEF Inv, TypesInv, Row
<1>2. ClaimsInv'
  BY DEF Inv, ClaimsInv, Accepted, Mine, Row
<1>3. PostsInv'
  BY DEF Inv, PostsInv, Posts, Strays, Made, Mine, Row
<1>4. RecoveryInv'
  BY DEF Inv, RecoveryInv, RecoveryFollowsAlert, Tells, IsAlert, Row
<1>5. OrderInv'
  BY DEF Inv, OrderInv, PostedInOrder, Row
<1>6. QED BY <1>1, <1>2, <1>3, <1>4, <1>5 DEF Inv, RowsStay, Row

-----------------------------------------------------------------------------
(* Changes of the signal *)

SignalType == [exists : BOOLEAN, active : BOOLEAN, severity : 1..2, openedAt : Nat, lastSeen : Nat]

\* A row that is enqueued.
Fresh(n) ==
  /\ n \in RowType /\ n.attempts = 0 /\ n.token = None /\ n.status \in {"pending", "suppressed"}
  /\ signal'.exists /\ n.since = signal'.openedAt /\ n.occurred = signal'.lastSeen

LEMMA Enqueued ==
  ASSUME NEW rs \in Seq(RowType), NEW transition \in Alert \cup {"recovered"}, NEW severity \in 0..2,
         NEW at \in Nat, signal' \in SignalType, signal'.exists, signal'.lastSeen = at
  PROVE  \/ Enqueue(rs, transition, severity, at) = rs
         \/ \E n \in RowType : Fresh(n) /\ Enqueue(rs, transition, severity, at) = Append(rs, n)
<1> DEFINE n == [transition |-> transition, severity |-> severity, occurred |-> at,
                 status |-> IF SuppressionReason = None THEN "pending" ELSE "suppressed",
                 reason |-> SuppressionReason, attempts |-> 0, token |-> None,
                 due |-> TRUE, since |-> signal'.openedAt, released |-> FALSE, recalled |-> FALSE]
<1>1. Enqueue(rs, transition, severity, at) \in {rs, Append(rs, n)}
  BY DEF Enqueue
<1>2. signal'.openedAt \in Nat
  BY DEF SignalType
<1>3. (IF SuppressionReason = None THEN "pending" ELSE "suppressed") \in {"pending", "suppressed"}
  OBVIOUS
<1>4. n \in RowType
  BY <1>2, <1>3, Reasons DEF RowType, Statuses, Undelivered, Waiting, Tokens
<1>5. Fresh(n)
  BY <1>3, <1>4 DEF Fresh
<1>6. QED BY <1>1, <1>4, <1>5

\* A signal changes: rows are taken out of delivery, and one may be added.
LEMMA SignalChanges ==
  ASSUME Inv, NEW S, NEW ss \in Seq(RowType), Len(ss) = Len(rows),
         \A r \in Row : /\ r \in S => TakenOut(rows[r], ss[r]) /\ rows[r].status # "sent"
                        /\ r \notin S => ss[r] = rows[r],
         \/ rows' = ss
         \/ \E n \in RowType : Fresh(n) /\ rows' = Append(ss, n) /\ Len(rows) < MaxRows,
         UNCHANGED <<disp, posted>>,
         disturbed' \in [1..MaxRows -> Nat],
         \A r \in Row : disturbed'[r] = disturbed[r] + (IF r \in S /\ rows[r].status = "sending" THEN 1 ELSE 0),
         signal' \in SignalType, signal'.exists => signal'.openedAt <= signal'.lastSeen,
         signal'.active => signal'.exists,
         \/ \A r \in Row : rows[r].status \in Undelivered => r \in S
         \/ signal'.exists /\ (signal.exists => /\ signal.openedAt <= signal'.openedAt
                                                /\ signal.lastSeen <= signal'.lastSeen)
  PROVE  Inv' /\ RowsStay
<1>1. Row = 1..Len(rows) /\ Len(rows) \in Nat /\ \A r \in Row : rows[r] \in RowType
  BY RowTyped, LenProperties DEF Inv, TypesInv, Row
<1>2. /\ rows' \in Seq(RowType) /\ Len(rows') \in {Len(rows), Len(rows) + 1} /\ Len(rows') <= MaxRows
      /\ \A r \in Row : rows'[r] = ss[r]
      /\ Len(rows') = Len(rows) + 1 => Fresh(rows'[Len(rows) + 1])
  <2>1. CASE rows' = ss
    BY <1>1, <2>1 DEF Inv, TypesInv
  <2>2. CASE \E n \in RowType : Fresh(n) /\ rows' = Append(ss, n) /\ Len(rows) < MaxRows
    <3>1. PICK n \in RowType : Fresh(n) /\ rows' = Append(ss, n) /\ Len(rows) < MaxRows
      BY <2>2
    <3>2. /\ rows' \in Seq(RowType) /\ Len(rows') = Len(rows) + 1 /\ rows'[Len(rows) + 1] = n
          /\ \A r \in 1..Len(rows) : rows'[r] = ss[r]
      BY <3>1, AppendProperties
    <3>3. QED BY <1>1, <3>1, <3>2
  <2>3. QED BY <2>1, <2>2
<1>3. /\ Row' = 1..Len(rows') /\ Row \subseteq Row'
      /\ \A r \in Row' \ Row : r = Len(rows) + 1 /\ Fresh(rows'[r])
  BY <1>1, <1>2 DEF Row
<1>4. TypesInv'
  <2>1. posted \in Seq(Row')
    BY <1>3, SeqGrows DEF Inv, TypesInv
  <2>2. QED BY <1>2, <2>1 DEF Inv, TypesInv, SignalType
<1>5. ASSUME NEW r \in Row
      PROVE  /\ r \in S => TakenOut(rows[r], rows'[r])
             /\ r \notin S => rows'[r] = rows[r]
             /\ Says(rows[r], rows'[r]) /\ rows'[r].attempts = rows[r].attempts
  <2>1. CASE r \in S
    <3>1. rows'[r] = ss[r]
      BY <1>2
    <3>2. TakenOut(rows[r], ss[r])
      BY <2>1
    <3>3. TakenOut(rows[r], rows'[r])
      BY <3>1, <3>2
    <3>4. QED BY <2>1, <3>3 DEF TakenOut, Kept
  <2>2. CASE r \notin S
    <3>1. rows'[r] = rows[r]
      BY <1>2, <2>2
    <3>2. QED BY <2>2, <3>1 DEF Says
  <2>3. QED BY <2>1, <2>2
<1>6. \A r \in Row : (rows'[r].status \in Undelivered \/ rows'[r].status = "sent" \/ rows'[r].token # None) =>
                     r \notin S /\ rows'[r] = rows[r]
  BY <1>5 DEF TakenOut, Undelivered, Waiting
<1>7. \A r \in Row' \ Row : /\ rows'[r].status \notin {"sending", "sent"} /\ rows'[r].token = None
                            /\ rows'[r].attempts = 0
  BY <1>3 DEF Fresh
<1>8. \A e \in Dispatcher : disp[e].pc # "idle" => /\ disp[e].row \in Row
                                                   /\ Mine(e)' <=> Mine(e) /\ disp[e].row \notin S
  <2> SUFFICES ASSUME NEW e \in Dispatcher, disp[e].pc # "idle"
               PROVE  disp[e].row \in Row /\ (Mine(e)' <=> Mine(e) /\ disp[e].row \notin S)
    OBVIOUS
  <2>1. disp[e].row \in Row /\ disp' = disp
    BY DEF Inv, ClaimsInv
  <2>2. CASE disp[e].row \in S
    BY <1>5, <2>1, <2>2 DEF Mine, TakenOut
  <2>3. CASE disp[e].row \notin S
    BY <1>5, <2>1, <2>3 DEF Mine
  <2>4. QED BY <2>1, <2>2, <2>3
<1>9. /\ \A k \in Nat : Accepted(k)' <=> Accepted(k)
      /\ \A k \in Row' \ Row : ~Accepted(k) /\ \A i \in 1..Len(posted) : posted[i] # k
  BY DEF Accepted, Inv, TypesInv
<1>10. ClaimsInv'
  <2>1. ASSUME NEW k \in Row
        PROVE  /\ rows'[k].token = None <=> rows'[k].status # "sending"
               /\ rows'[k].status = "sent" => Accepted(k)'
               /\ rows'[k].status = "sending" \/ Accepted(k)' => rows'[k].attempts > 0
               /\ rows'[k].token \in Dispatcher =>
                    disp'[rows'[k].token].pc # "idle" /\ disp'[rows'[k].token].row = k
    <3>1. /\ rows[k].token = None <=> rows[k].status # "sending"
          /\ rows[k].status = "sent" => Accepted(k)
          /\ rows[k].status = "sending" \/ Accepted(k) => rows[k].attempts > 0
          /\ rows[k].token \in Dispatcher => disp[rows[k].token].pc # "idle" /\ disp[rows[k].token].row = k
      BY DEF Inv, ClaimsInv
    <3>2. (Accepted(k)' <=> Accepted(k)) /\ disp' = disp
      BY <1>1, <1>9
    <3>3. CASE k \in S
      <4>1. rows'[k].token = None /\ rows'[k].status = "suppressed" /\ rows'[k].attempts = rows[k].attempts
        BY <1>5, <3>3 DEF TakenOut
      <4>2. QED BY <3>1, <3>2, <4>1
    <3>4. CASE k \notin S
      BY <1>5, <3>1, <3>2, <3>4
    <3>5. QED BY <3>3, <3>4
  <2>2. ASSUME NEW k \in Row' \ Row
        PROVE  /\ rows'[k].token = None <=> rows'[k].status # "sending"
               /\ rows'[k].status = "sent" => Accepted(k)'
               /\ rows'[k].status = "sending" \/ Accepted(k)' => rows'[k].attempts > 0
               /\ rows'[k].token \in Dispatcher =>
                    disp'[rows'[k].token].pc # "idle" /\ disp'[rows'[k].token].row = k
    <3>1. k \in Nat
      BY <1>3
    <3>2. QED BY <1>7, <1>9, <3>1
  <2>3. ASSUME NEW e \in Dispatcher, disp[e].pc # "idle"
        PROVE  /\ disp[e].row \in Row' /\ rows'[disp[e].row].attempts > 0
               /\ disp[e].pc = "post" => Mine(e)' \/ Excused(rows'[disp[e].row])
               /\ disp[e].pc = "complete" /\ disp[e].ok => Accepted(disp[e].row)'
    <3>1. /\ disp[e].row \in Row /\ rows[disp[e].row].attempts > 0
          /\ disp[e].pc = "post" => Mine(e) \/ Excused(rows[disp[e].row])
          /\ disp[e].pc = "complete" /\ disp[e].ok => Accepted(disp[e].row)
      BY <2>3 DEF Inv, ClaimsInv
    <3>2. Accepted(disp[e].row)' <=> Accepted(disp[e].row)
      BY DEF Accepted
    <3>3. rows'[disp[e].row].attempts > 0 /\ (Excused(rows[disp[e].row]) => Excused(rows'[disp[e].row]))
      BY <1>5, <3>1 DEF Says, Excused
    <3>4. Mine(e) /\ disp[e].row \in S => Excused(rows'[disp[e].row])
      BY <1>5, <3>1 DEF TakenOut, Mine, Excused
    <3>5. QED BY <1>3, <1>8, <2>3, <3>1, <3>2, <3>3, <3>4
  <2>4. disp' = disp
    OBVIOUS
  <2>5. QED BY <2>1, <2>2, <2>3, <2>4 DEF ClaimsInv
<1>11. ASSUME NEW r \in Row
       PROVE  Balanced(r)'
  <2> DEFINE taken == r \in S /\ rows[r].status = "sending"
  <2>1. disturbed'[r] = disturbed[r] + (IF taken THEN 1 ELSE 0) /\ disp' = disp /\ posted' = posted
    OBVIOUS
  <2>2. \A e \in Dispatcher : disp[e].pc # "idle" /\ disp[e].row = r =>
          (Mine(e)' => Mine(e)) /\ (Mine(e) => taken \/ Mine(e)')
    <3> SUFFICES ASSUME NEW e \in Dispatcher, disp[e].pc # "idle", disp[e].row = r
                 PROVE  (Mine(e)' => Mine(e)) /\ (Mine(e) => taken \/ Mine(e)')
      OBVIOUS
    <3>1. Mine(e)' <=> Mine(e) /\ r \notin S
      BY <1>8
    <3>2. Mine(e) => rows[r].status = "sending"
      BY DEF Mine
    <3>3. QED BY <3>1, <3>2
  <2>3. rows[r].status = "sent" => taken \/ rows'[r].status = "sent"
    BY <1>5
  <2>4. taken \in BOOLEAN
    OBVIOUS
  <2> HIDE DEF taken
  <2>5. QED BY <2>1, <2>2, <2>3, <2>4, BalanceTaken
<1>12. ASSUME NEW r \in Row' \ Row
       PROVE  Balanced(r)'
  <2>1. Posts(r)' = 0
    <3>1. posted \in Seq(Row) /\ \A i \in 1..Len(posted) : posted[i] # r
      BY <1>9 DEF Inv, TypesInv
    <3>2. PostsIn(posted, r) = 0
      BY <3>1, PostsCount
    <3>3. QED BY <3>2 DEF Posts, PostsIn
  <2>2. Strays(r)' = {}
    <3>1. \A e \in Dispatcher : disp[e].pc = "post" => disp[e].row \in Row
      BY <1>8
    <3>2. QED BY <3>1 DEF Strays
  <2>3. Cardinality(Strays(r)') = 0
    BY <2>2, FS_EmptySet
  <2>4. disturbed'[r] \in Nat
    BY <1>2, <1>3, <1>1
  <2>5. QED BY <2>1, <2>3, <2>4 DEF Balanced
<1>13. PostsInv'
  BY <1>11, <1>12 DEF PostsInv, Balanced
<1>14. \A r \in Row : rows'[r].status \in Undelivered =>
         /\ rows[r].status \in Undelivered /\ rows'[r] = rows[r] /\ signal'.exists
         /\ signal.exists => signal.openedAt <= signal'.openedAt /\ signal.lastSeen <= signal'.lastSeen
  BY <1>6
<1>15. RecoveryInv'
  <2>1. ASSUME NEW r \in Row', rows'[r].transition = "recovered", rows'[r].status \in Undelivered
        PROVE  signal'.exists /\ rows'[r].since <= signal'.openedAt
    <3>1. CASE r \in Row
      <4>1. signal.exists /\ rows[r].since <= signal.openedAt /\ rows'[r] = rows[r]
        BY <1>14, <2>1, <3>1 DEF Inv, RecoveryInv
      <4>2. signal'.exists /\ signal.openedAt <= signal'.openedAt
        BY <1>14, <2>1, <3>1, <4>1
      <4>3. rows[r].since \in Nat /\ signal.openedAt \in Nat /\ signal'.openedAt \in Nat
        BY <1>1, <3>1 DEF RowType, SignalType, Inv, TypesInv
      <4>4. QED BY <4>1, <4>2, <4>3
    <3>2. CASE r \notin Row
      BY <1>3, <3>2 DEF Fresh, SignalType
    <3>3. QED BY <3>1, <3>2
  <2>2. posted' = posted /\ disp' = disp
    OBVIOUS
  <2>3. \A r \in Row : Says(rows[r], rows'[r])
    BY <1>5
  <2>4. QED BY <1>3, <2>1, <2>2, <2>3, RecoveryKept
<1>16. OrderInv'
  <2>1. ASSUME NEW r \in Row', rows'[r].status \in Undelivered, ~rows'[r].released
        PROVE  /\ signal'.exists /\ rows'[r].occurred <= signal'.lastSeen
               /\ \A t \in Row' : r < t => /\ rows'[r].occurred <= rows'[t].occurred
                                           /\ rows'[t].attempts > 0 => rows'[r].recalled
    <3>1. CASE r \in Row
      <4>1. /\ rows[r].status \in Undelivered /\ rows'[r] = rows[r] /\ signal'.exists
            /\ signal.exists => signal.openedAt <= signal'.openedAt /\ signal.lastSeen <= signal'.lastSeen
        BY <1>14, <2>1, <3>1
      <4>2. /\ signal.exists /\ rows[r].occurred <= signal.lastSeen
            /\ \A t \in Row : r < t => /\ rows[r].occurred <= rows[t].occurred
                                       /\ rows[t].attempts > 0 => rows[r].recalled
        BY <2>1, <3>1, <4>1 DEF Inv, OrderInv
      <4>3. rows[r].occurred \in Nat /\ signal.lastSeen \in Nat /\ signal'.lastSeen \in Nat
        BY <1>1, <3>1 DEF RowType, SignalType, Inv, TypesInv
      <4>4. rows[r].occurred <= signal'.lastSeen
        BY <4>1, <4>2, <4>3
      <4>5. ASSUME NEW t \in Row, r < t
            PROVE  rows'[r].occurred <= rows'[t].occurred /\ (rows'[t].attempts > 0 => rows'[r].recalled)
        BY <1>5, <4>1, <4>2, <4>5 DEF Says
      <4>6. ASSUME NEW t \in Row' \ Row
            PROVE  rows'[r].occurred <= rows'[t].occurred /\ rows'[t].attempts = 0
        BY <1>3, <4>1, <4>4 DEF Fresh
      <4>7. QED BY <4>1, <4>4, <4>5, <4>6
    <3>2. CASE r \notin Row
      <4>1. r = Len(rows) + 1 /\ Fresh(rows'[r])
        BY <1>3, <3>2
      <4>2. \A t \in Row' : ~(r < t)
        BY <1>1, <1>2, <1>3, <4>1
      <4>3. QED BY <4>1, <4>2 DEF Fresh, SignalType
    <3>3. QED BY <3>1, <3>2
  <2>2. posted' = posted
    OBVIOUS
  <2>3. \A r \in Row : Says(rows[r], rows'[r])
    BY <1>5
  <2>4. QED BY <1>3, <2>1, <2>2, <2>3, OrderKept
<1>17. RowsStay
  BY <1>3, <1>5 DEF RowsStay, Says, IsAlert
<1>18. QED BY <1>4, <1>10, <1>13, <1>15, <1>16, <1>17 DEF Inv

LEMMA SuppressNow ==
  ASSUME Inv, NEW S, S \subseteq InStatus(rows, Undelivered \cup {"suppressed"}), NEW reason \in Reason
  PROVE  /\ Suppress(rows, S, reason) \in Seq(RowType) /\ Len(Suppress(rows, S, reason)) = Len(rows)
         /\ \A r \in Row : r \in S => TakenOut(rows[r], Suppress(rows, S, reason)[r]) /\ rows[r].status # "sent"
         /\ \A r \in Row : r \notin S => Suppress(rows, S, reason)[r] = rows[r]
<1> DEFINE ss == Suppress(rows, S, reason)
<1> HIDE DEF ss
<1>0. ss = Suppress(rows, S, reason)
  BY DEF ss
<1>1. rows \in Seq(RowType) /\ Row = 1..Len(rows)
  BY DEF Inv, TypesInv, Row
<1>2. \A r \in S : rows[r].status # "sent"
  BY DEF InStatus, Undelivered, Waiting
<1>3. QED BY <1>0, <1>1, <1>2, SuppressRows

LEMMA TakenBackCounts ==
  ASSUME Inv, NEW T, TakenBack(T)
  PROVE  /\ disturbed' \in [1..MaxRows -> Nat]
         /\ \A r \in Row : disturbed'[r] = disturbed[r] + (IF r \in T /\ rows[r].status = "sending" THEN 1 ELSE 0)
<1> DEFINE U == T \cap InStatus(rows, {"sending"})
<1>1. Disturb(U)
  BY DEF TakenBack
<1>2. \A r \in Row : r \in U <=> r \in T /\ rows[r].status = "sending"
  BY LenProperties DEF InStatus, Inv, TypesInv, Row
<1> HIDE DEF U
<1>3. QED BY <1>1, <1>2, BlamedCounts

\* An alert: nothing is taken out.
LEMMA AlertStep ==
  ASSUME Inv, NEW transition \in Alert, NEW severity \in 1..2, NEW at \in 1..MaxTime, Current(at),
         Len(rows) < MaxRows, rows' = Enqueue(rows, transition, severity, at),
         UNCHANGED <<disp, posted, disturbed>>,
         signal' \in SignalType, signal'.exists, signal'.lastSeen = at,
         signal'.openedAt = at \/ (signal.exists /\ signal'.openedAt = signal.openedAt)
  PROVE  Inv' /\ RowsStay
<1>1. rows \in Seq(RowType) /\ at \in Nat /\ severity \in 0..2
  BY DEF Inv, TypesInv
<1>2. rows' = rows \/ \E n \in RowType : Fresh(n) /\ rows' = Append(rows, n) /\ Len(rows) < MaxRows
  BY <1>1, Enqueued
<1>3. /\ disturbed' \in [1..MaxRows -> Nat]
      /\ \A r \in Row : disturbed'[r] = disturbed[r] + (IF r \in {} /\ rows[r].status = "sending" THEN 1 ELSE 0)
  BY RowsAreFew DEF Inv, TypesInv
<1>4. /\ signal.exists => signal.openedAt <= signal.lastSeen /\ signal.lastSeen <= at
      /\ signal.openedAt \in Nat /\ signal.lastSeen \in Nat
  BY DEF Inv, TypesInv, Current
<1>5. /\ signal.exists => signal.openedAt <= signal'.openedAt /\ signal.lastSeen <= signal'.lastSeen
      /\ signal'.openedAt <= signal'.lastSeen
  BY <1>1, <1>4
<1>6. \A r \in Row : /\ r \in {} => TakenOut(rows[r], rows[r]) /\ rows[r].status # "sent"
                     /\ r \notin {} => rows[r] = rows[r]
  OBVIOUS
<1>7. QED BY <1>1, <1>2, <1>3, <1>5, <1>6, SignalChanges

LEMMA OpenStep ==
  ASSUME Inv, NEW severity \in 1..2, NEW at \in 1..MaxTime, Open(severity, at) \/ Escalate(severity, at)
  PROVE  Inv' /\ RowsStay
<1>1. CASE Open(severity, at)
  <2>1. signal' \in SignalType /\ signal'.exists /\ signal'.lastSeen = at /\ signal'.openedAt = at
    BY <1>1 DEF Open, SignalType
  <2>2. "opened" \in Alert
    BY DEF Alert
  <2>3. QED BY <1>1, <2>1, <2>2, AlertStep DEF Open, SignalFrame
<1>2. CASE Escalate(severity, at)
  <2>1. signal \in SignalType /\ signal.exists
    BY <1>2 DEF Escalate, Inv, TypesInv, SignalType
  <2>2. signal' = [signal EXCEPT !.severity = severity, !.lastSeen = at]
    BY <1>2 DEF Escalate
  <2>3. signal' \in SignalType /\ signal'.exists /\ signal'.lastSeen = at /\ signal'.openedAt = signal.openedAt
    <3>1. at \in Nat
      OBVIOUS
    <3>2. QED BY <2>1, <2>2, <3>1 DEF SignalType
  <2>4. "escalated" \in Alert
    BY DEF Alert
  <2>5. QED BY <1>2, <2>1, <2>3, <2>4, AlertStep DEF Escalate, SignalFrame
<1>3. QED BY <1>1, <1>2

LEMMA RepeatStep ==
  ASSUME Inv, NEW severity \in 1..2, NEW at \in 1..MaxTime, Repeat(severity, at)
  PROVE  Inv' /\ RowsStay
<1> DEFINE milder == Deescalates /\ severity < signal.severity
           old == {r \in InStatus(rows, Undelivered) :
                     milder /\ rows[r].severity = 2 /\ rows[r].occurred >= signal.openedAt}
<1>1. /\ Current(at) /\ signal.active /\ UNCHANGED <<disp, posted>> /\ TakenBack(old)
      /\ signal' = [signal EXCEPT !.severity = IF milder THEN severity ELSE @, !.lastSeen = at]
      /\ rows' = Suppress(rows, old, "signal_deescalated_before_delivery")
  BY DEF Repeat, SignalFrame
<1>2. old \in SUBSET InStatus(rows, Undelivered \cup {"suppressed"}) /\ "signal_deescalated_before_delivery" \in Reason
  BY DEF InStatus, Reason
<1>3. /\ signal \in SignalType /\ signal.exists /\ signal.openedAt <= signal.lastSeen /\ signal.lastSeen <= at
      /\ at \in Nat /\ (IF milder THEN severity ELSE signal.severity) \in 1..2
  BY <1>1 DEF Inv, TypesInv, SignalType, Current
<1>4. signal' \in SignalType /\ signal'.exists /\ signal'.openedAt = signal.openedAt /\ signal'.lastSeen = at
  BY <1>1, <1>3 DEF SignalType
<1> HIDE DEF old
<1>5. /\ rows' \in Seq(RowType) /\ Len(rows') = Len(rows)
      /\ \A r \in Row : /\ r \in old => TakenOut(rows[r], rows'[r]) /\ rows[r].status # "sent"
                        /\ r \notin old => rows'[r] = rows[r]
  BY <1>1, <1>2, SuppressNow
<1>6. /\ disturbed' \in [1..MaxRows -> Nat]
      /\ \A r \in Row : disturbed'[r] = disturbed[r] + (IF r \in old /\ rows[r].status = "sending" THEN 1 ELSE 0)
  BY <1>1, TakenBackCounts
<1>7. signal.openedAt <= signal'.openedAt /\ signal.lastSeen <= signal'.lastSeen /\ signal'.openedAt <= signal'.lastSeen
  <2>1. signal.openedAt \in Nat /\ signal.lastSeen \in Nat
    BY <1>3 DEF SignalType
  <2>2. QED BY <1>3, <1>4, <2>1
<1>8. UNCHANGED <<disp, posted>>
  BY <1>1
<1>9. QED BY <1>4, <1>5, <1>6, <1>7, <1>8, SignalChanges

LEMMA RecoverStep ==
  ASSUME Inv, NEW at \in 1..MaxTime, Recover(at)
  PROVE  Inv' /\ RowsStay
<1> DEFINE ss == Suppress(rows, OpenAlerts, "signal_recovered_before_delivery")
<1>1. /\ Current(at) /\ signal.active /\ UNCHANGED <<disp, posted>> /\ TakenBack(OpenAlerts) /\ Len(rows) < MaxRows
      /\ signal' = [signal EXCEPT !.active = FALSE, !.lastSeen = at]
      /\ rows' = Enqueue(ss, "recovered", 0, at)
  BY DEF Recover, SignalFrame
<1>2. /\ OpenAlerts \in SUBSET InStatus(rows, Undelivered \cup {"suppressed"})
      /\ "signal_recovered_before_delivery" \in Reason
  BY DEF OpenAlerts, InStatus, Reason
<1>3. /\ signal \in SignalType /\ signal.exists /\ signal.openedAt <= signal.lastSeen /\ signal.lastSeen <= at
      /\ at \in Nat
  BY <1>1 DEF Inv, TypesInv, SignalType, Current
<1>4. signal' \in SignalType /\ signal'.exists /\ signal'.openedAt = signal.openedAt /\ signal'.lastSeen = at
  BY <1>1, <1>3 DEF SignalType
<1>5. /\ ss \in Seq(RowType) /\ Len(ss) = Len(rows)
      /\ \A r \in Row : /\ r \in OpenAlerts => TakenOut(rows[r], ss[r]) /\ rows[r].status # "sent"
                        /\ r \notin OpenAlerts => ss[r] = rows[r]
  BY <1>2, SuppressNow
<1> HIDE DEF ss
<1>6. rows' = ss \/ \E n \in RowType : Fresh(n) /\ rows' = Append(ss, n) /\ Len(rows) < MaxRows
  <2>1. "recovered" \in Alert \cup {"recovered"} /\ 0 \in 0..2
    OBVIOUS
  <2>2. \/ Enqueue(ss, "recovered", 0, at) = ss
        \/ \E n \in RowType : Fresh(n) /\ Enqueue(ss, "recovered", 0, at) = Append(ss, n)
    BY <1>3, <1>4, <1>5, <2>1, Enqueued
  <2>3. QED BY <1>1, <2>2
<1>7. /\ disturbed' \in [1..MaxRows -> Nat]
      /\ \A r \in Row : disturbed'[r] = disturbed[r]
                          + (IF r \in OpenAlerts /\ rows[r].status = "sending" THEN 1 ELSE 0)
  BY <1>1, TakenBackCounts
<1>8. signal.openedAt <= signal'.openedAt /\ signal.lastSeen <= signal'.lastSeen /\ signal'.openedAt <= signal'.lastSeen
  <2>1. signal.openedAt \in Nat /\ signal.lastSeen \in Nat
    BY <1>3 DEF SignalType
  <2>2. QED BY <1>3, <1>4, <2>1
<1>9. UNCHANGED <<disp, posted>>
  BY <1>1
<1>10. QED BY <1>4, <1>5, <1>6, <1>7, <1>8, <1>9, SignalChanges

\* The channel is switched off, or the signal is retired: nothing is left to deliver.
LEMMA AllOutStep ==
  ASSUME Inv, NEW reason \in Reason, NEW S \in SUBSET InStatus(rows, Undelivered \cup {"suppressed"}),
         InStatus(rows, Undelivered) \subseteq S, rows' = Suppress(rows, S, reason), TakenBack(Row),
         signal' \in {signal, NoSignal}, UNCHANGED <<disp, posted>>
  PROVE  Inv' /\ RowsStay
<1>1. /\ rows' \in Seq(RowType) /\ Len(rows') = Len(rows)
      /\ \A r \in Row : /\ r \in S => TakenOut(rows[r], rows'[r]) /\ rows[r].status # "sent"
                        /\ r \notin S => rows'[r] = rows[r]
  BY SuppressNow
<1>2. \A r \in Row : rows[r].status \in Undelivered => r \in S
  BY LenProperties DEF InStatus, Row, Inv, TypesInv
<1>3. \A r \in Row : rows[r].status = "sending" => r \in S
  BY <1>2 DEF Undelivered
<1>4. /\ disturbed' \in [1..MaxRows -> Nat]
      /\ \A r \in Row : disturbed'[r] = disturbed[r] + (IF r \in S /\ rows[r].status = "sending" THEN 1 ELSE 0)
  BY <1>3, TakenBackCounts
<1>5. /\ signal' \in SignalType
      /\ signal'.exists => signal'.openedAt <= signal'.lastSeen
      /\ signal'.active => signal'.exists
  <2>1. CASE signal' = signal
    BY <2>1 DEF Inv, TypesInv, SignalType
  <2>2. CASE signal' = NoSignal
    BY <2>2 DEF SignalType, NoSignal
  <2>3. QED BY <2>1, <2>2
<1>6. QED BY <1>1, <1>2, <1>4, <1>5, SignalChanges

LEMMA OperatorStep ==
  ASSUME Inv,
         \/ \E on \in BOOLEAN : SetChannel(on) \/ SetMuted(on)
         \/ \E reason \in Retirement : Retire(reason)
  PROVE  Inv' /\ RowsStay
<1>1. ASSUME SetChannel(TRUE) \/ \E on \in BOOLEAN : SetMuted(on)
      PROVE  Inv' /\ RowsStay
  <2>1. UNCHANGED <<signal, rows, disp, posted>>
    BY <1>1 DEF SetChannel, SetMuted
  <2>2. disturbed' = disturbed
    BY <1>1 DEF SetChannel, SetMuted, TakenBack, Disturb, Inv, TypesInv
  <2>3. QED BY <2>1, <2>2, SetMutedStep
<1>2. ASSUME SetChannel(FALSE)
      PROVE  Inv' /\ RowsStay
  <2>1. InStatus(rows, Undelivered) \in SUBSET InStatus(rows, Undelivered \cup {"suppressed"})
    BY DEF InStatus
  <2>2. "channel_disabled" \in Reason
    BY DEF Reason
  <2>3. QED BY <1>2, <2>1, <2>2, AllOutStep DEF SetChannel
<1>3. ASSUME NEW reason \in Retirement, Retire(reason)
      PROVE  Inv' /\ RowsStay
  <2>1. InStatus(rows, Undelivered) \subseteq InStatus(rows, Undelivered \cup {"suppressed"})
    BY DEF InStatus
  <2>2. reason \in Reason
    BY DEF Reason
  <2>3. QED BY <1>3, <2>1, <2>2, AllOutStep DEF Retire
<1>4. QED BY <1>1, <1>2, <1>3

IInv == Inv /\ LooksInv

LEMMA IInit == Init => IInv
<1> SUFFICES ASSUME Init PROVE LooksInv
  BY InitInv DEF IInv
<1>1. \A d \in Dispatcher : looked[d] = Nothing
  BY DEF Init
<1>2. QED BY <1>1 DEF Init, LooksInv, Nothing, Reason

LEMMA NextInv == IInv /\ [Next]_vars => IInv'
<1> SUFFICES ASSUME Inv, LooksInv, [Next]_vars PROVE Inv' /\ LooksInv'
  BY DEF IInv
<1>1. ASSUME NEW at \in 1..MaxTime, NEW severity \in 1..2,
             Open(severity, at) \/ Escalate(severity, at) \/ Repeat(severity, at)
      PROVE  Inv' /\ RowsStay /\ looked' = looked
  BY <1>1, OpenStep, RepeatStep DEF Open, Escalate, Repeat, SignalFrame
<1>2. ASSUME NEW at \in 1..MaxTime, Recover(at)
      PROVE  Inv' /\ RowsStay /\ looked' = looked
  BY <1>2, RecoverStep DEF Recover, SignalFrame
<1>3. ASSUME \/ \E on \in BOOLEAN : SetChannel(on) \/ SetMuted(on)
             \/ \E reason \in Retirement : Retire(reason)
      PROVE  Inv' /\ RowsStay /\ looked' = looked
  <2>1. looked' = looked
    BY <1>3 DEF SetChannel, SetMuted, Retire
  <2>2. QED BY <1>3, <2>1, OperatorStep
<1>4. ASSUME NEW d \in Dispatcher, Claim(d) \/ Looks(d)
      PROVE  Inv' /\ LooksInv'
  BY <1>4, ClaimStep, LooksStep
<1>5. ASSUME NEW d \in Dispatcher,
             Gate(d) \/ SuppressRow(d) \/ Post(d) \/ Complete(d) \/ GateFails(d) \/ PostTimesOut(d) \/ Lost(d)
      PROVE  Inv' /\ RowsStay /\ looked' = looked
  <2>1. looked' = looked
    BY <1>5 DEF Gate, SuppressRow, Post, Complete, GateFails, PostTimesOut, Lost, DispFrame
  <2>2. QED BY <1>5, <2>1, GateStep, SuppressRowStep, PostStep, PostTimesOutStep, CompleteStep, LostStep
<1>6. ASSUME NEW r, Passes(r)
      PROVE  Inv' /\ RowsStay /\ looked' = looked
  <2>1. looked' = looked
    BY <1>6 DEF Passes, ClaimAges, BackoffEnds
  <2>2. QED BY <1>6, <2>1, PassesStep
<1>7. CASE UNCHANGED vars
  <2>1. Inv' /\ RowsStay /\ looked' = looked
    BY <1>7, SetMutedStep DEF vars
  <2>2. QED BY <2>1, LooksKept
<1>8. QED BY <1>1, <1>2, <1>3, <1>4, <1>5, <1>6, <1>7, LooksKept DEF Next, Work

-----------------------------------------------------------------------------
(* Theorems *)

\* However many dispatchers overlap, Discord gets a row's message once, and once more for each time
\* the outbox could not know or forgot what became of a delivery: an outcome that was lost, a claim
\* that was taken back or overtaken after five minutes, a row that a claim wrote after another had
\* taken it.
\* (claim_notification_outbox_v1, deliverLegacyRow, complete_notification_delivery_v1.)
THEOREM NoRowTwice == Spec => []NoDoubleSend
<1>1. IInv => NoDoubleSend
  <2> SUFFICES ASSUME Inv, NEW r \in Row PROVE Posts(r) <= 1 + disturbed[r]
    BY DEF IInv, NoDoubleSend
  <2>1. Posts(r) + Cardinality(Strays(r)) <= disturbed[r] + (IF Made(r) THEN 1 ELSE 0)
    BY DEF Inv, PostsInv
  <2>2. Posts(r) \in Nat
    <3>1. posted \in Seq(Row) /\ Posts(r) = PostsIn(posted, r)
      BY DEF Inv, TypesInv, Posts, PostsIn
    <3>2. QED BY <3>1, PostsCount
  <2>3. Cardinality(Strays(r)) \in Nat
    <3>1. Strays(r) \in SUBSET Dispatcher
      BY DEF Strays
    <3>2. QED BY <3>1, SetsBut
  <2>4. disturbed[r] \in Nat
    BY RowsAreFew DEF Inv, TypesInv
  <2>5. QED BY <2>1, <2>2, <2>3, <2>4
<1>2. QED BY <1>1, IInit, NextInv, PTL DEF Spec

\* Discord never hears of a recovery before an alert of the same incident.
\* (claim_notification_outbox_v1, notification_delivery_block_reason_v1.)
THEOREM RecoveriesAreUnderstood == Spec => []RecoveryFollowsAlert
<1>1. IInv => RecoveryFollowsAlert
  BY DEF IInv, Inv, RecoveryInv
<1>2. QED BY <1>1, IInit, NextInv, PTL DEF Spec

\* Messages come in the order of the signal's transitions, but for rows that were put back after a
\* suppression or recalled on their way.  (claim_notification_outbox_v1.)
THEOREM TransitionsInOrder == Spec => []PostedInOrder
<1>1. IInv => PostedInOrder
  BY DEF IInv, Inv, OrderInv
<1>2. QED BY <1>1, IInit, NextInv, PTL DEF Spec
=============================================================================
