------------------------- MODULE StatusCenterProofs -------------------------
(***************************************************************************)
(* Proofs about an item of the Status Center, for any number of forms,     *)
(* submissions, dispatchers, schedules and troubles.                       *)
(*                                                                         *)
(* The invariant has two halves that meet in the number of deliveries:     *)
(* ContentInv speaks of the item, its updates and the requests, SendInv of *)
(* the deliveries and the dispatchers that hold them.                      *)
(***************************************************************************)
EXTENDS StatusCenter, SequenceTheorems, FiniteSetTheorems, TLAPS

LEMMA Constants ==
  /\ IsFiniteSet(Dispatcher) /\ Dispatcher \cap {None, "lost", "overdue"} = {} /\ None \notin {"lost", "overdue"}
  /\ MaxForms \in Nat
BY StatusAssumption DEF StatusAssumption

LEMMA NoStatus == None \notin FeedStatus
BY StatusAssumption DEF StatusAssumption

USE Constants

-----------------------------------------------------------------------------
(* The invariant *)

StatesOf(kind) ==
  CASE kind = "incident" -> {"absent", "draft", "published"}
    [] kind = "maintenance" -> {"absent", "draft", "published", "cancelled"}
    [] kind = "announcement" -> {"absent", "draft", "published", "archived"}

OpsOf(kind) ==
  CASE kind = "incident" -> {"publish", "update"}
    [] kind = "maintenance" -> {"publish", "cancel"}
    [] kind = "announcement" -> {"publish", "archive"}

ItemType == [kind : Kind, state : {"absent", "draft", "published", "cancelled", "archived"},
             life : Lifecycle, from : Nat, to : Nat \cup {None}, archivedAt : Nat \cup {None}]
FormType == [op : {"publish", "update", "cancel", "archive"}, life : Lifecycle]
Form == 1..Len(forms)
CallType == [req : Form, life : Lifecycle, at : 0..now]

ContentTypes ==
  /\ now \in Nat
  /\ item \in ItemType
  /\ forms \in Seq(FormType) /\ Len(forms) <= MaxForms
  /\ updates \in Seq(CallType)
  /\ ledger \in SUBSET Form
  /\ calls \in SUBSET CallType
  /\ answer \in {None} \cup [req : Form, life : Lifecycle]

ItemInv ==
  /\ item.state \in StatesOf(item.kind)
  /\ item.state = "absent" => forms = <<>>
  /\ item.kind = "maintenance" /\ item.state # "absent" => item.to \in Nat
  /\ item.state = "archived" => item.archivedAt \in 0..now
  /\ \A q \in Form : forms[q].op \in OpsOf(item.kind)
  /\ updates # <<>> <=> item.kind = "incident" /\ item.state = "published"

\* What a request of this operation leaves behind for good.
Shows(op) == IF op = "publish" THEN item.state \notin {"absent", "draft"} ELSE item.state = Target(op)

\* A recorded request has taken effect, and what has changed was asked for.
LedgerInv ==
  /\ item.kind # "incident" => \A q \in ledger : Shows(forms[q].op)
  /\ item.kind # "incident" /\ item.state \notin {"absent", "draft"} =>
       \E q \in ledger : forms[q].op = "publish"
  /\ item.state = "cancelled" => \E q \in ledger : forms[q].op = "cancel"

ContentInv == ContentTypes /\ ItemInv /\ LedgerInv /\ RequestsTakeEffectOnce

DeliveryType ==
  [type : {"published", "update", "resolved", "cancelled"}, occurred : Nat,
   status : Undelivered \cup {"suppressed", "sent", "failed"}, attempts : Nat, due : BOOLEAN,
   token : Dispatcher \cup {None, "lost", "overdue"}, recalled : BOOLEAN]
DispType == [pc : {"idle", "gate", "post", "suppress", "complete"}, row : Nat, ok : BOOLEAN]

SendTypes ==
  /\ deliveries \in Seq(DeliveryType) /\ Len(deliveries) <= MaxEvents
  /\ disp \in [Dispatcher -> DispType]
  /\ posted \in Seq(Row)
  /\ disturbed \in [1..MaxEvents -> Nat]

Accepted(r) == \E i \in 1..Len(posted) : posted[i] = r

\* A delivery is claimed while it is being sent, and a dispatcher that has one at its gate or
\* beyond holds the claim, or has lost it.
ClaimsInv ==
  /\ \A r \in Row : /\ deliveries[r].token = None <=> deliveries[r].status # "sending"
                    /\ deliveries[r].status = "sending" \/ Accepted(r) => deliveries[r].attempts > 0
                    /\ deliveries[r].token \in Dispatcher =>
                         disp[deliveries[r].token].pc # "idle" /\ disp[deliveries[r].token].row = r
  /\ \A d \in Dispatcher :
       disp[d].pc # "idle" => /\ disp[d].row \in Row /\ deliveries[disp[d].row].attempts > 0
                              /\ disp[d].pc = "post" => Mine(d) \/ deliveries[disp[d].row].recalled

\* Who may still post a row without its claim; whether the one post it is due is made.
Strays(r) == {d \in Dispatcher : disp[d].pc = "post" /\ disp[d].row = r /\ ~Mine(d)}
Made(r) == \/ deliveries[r].status = "sent"
           \/ \E d \in Dispatcher : disp[d].pc = "complete" /\ disp[d].ok /\ disp[d].row = r /\ Mine(d)
Balanced(r) == Posts(r) + Cardinality(Strays(r)) <= disturbed[r] + (IF Made(r) THEN 1 ELSE 0)

PostsInv == \A r \in Row : Balanced(r)

\* A delivery that was ever claimed left no earlier one behind that could still be claimed.
OrderInv ==
  /\ \A r, s \in Row : r < s /\ Earlier(deliveries, r, s) /\ deliveries[s].attempts > 0 =>
       deliveries[r].status \notin Undelivered
  /\ \A i, k \in 1..Len(posted) :
       i < k /\ posted[k] < posted[i] /\ Earlier(deliveries, posted[k], posted[i])
         => deliveries[posted[k]].recalled

SendInv == SendTypes /\ ClaimsInv /\ PostsInv /\ OrderInv

Inv == ContentInv /\ SendInv

-----------------------------------------------------------------------------
(* The item and its requests *)

LEMMA SeqGrows ==
  ASSUME NEW S, NEW T, S \subseteq T, NEW s \in Seq(S)
  PROVE  s \in Seq(T)
<1>1. Len(s) \in Nat /\ s \in [1..Len(s) -> S]
  BY LenProperties
<1>2. s \in [1..Len(s) -> T]
  BY <1>1
<1>3. QED BY <1>1, <1>2, SeqDef

LEMMA InitContent == Init => ContentInv
<1> SUFFICES ASSUME Init PROVE ContentInv
  OBVIOUS
<1>1. /\ Len(forms) = 0 /\ forms \in Seq(FormType) /\ updates \in Seq(CallType) /\ Len(updates) = 0
      /\ Len(deliveries) = 0
  BY EmptySeq DEF Init
<1>2. item \in ItemType /\ item.state = "absent"
  <2>1. \A k \in Kinds : k \in Kind
    BY StatusAssumption DEF StatusAssumption
  <2>2. QED BY <2>1 DEF Init, ItemType, Lifecycle, Resolved
<1>3. ContentTypes
  BY <1>1, <1>2 DEF Init, ContentTypes
<1>4. ItemInv
  BY <1>1, <1>2 DEF Init, ItemInv, StatesOf, Form, ItemType, Kind
<1>5. LedgerInv
  BY <1>2 DEF Init, LedgerInv
<1>6. Transitions = 0
  BY <1>1, <1>2 DEF Transitions, ItemType, Kind
<1>7. RequestsTakeEffectOnce
  BY <1>1, <1>6 DEF Init, RequestsTakeEffectOnce
<1>8. QED BY <1>3, <1>4, <1>5, <1>7 DEF ContentInv

\* What the content speaks of besides itself is the number of deliveries.
LEMMA ContentStays ==
  ASSUME ContentInv, UNCHANGED <<now, content, forms, calls, answer>>, Len(deliveries') = Len(deliveries)
  PROVE  ContentInv'
<1>1. UNCHANGED <<item, updates, ledger>>
  BY DEF content
<1>2. ContentTypes'
  BY <1>1 DEF ContentInv, ContentTypes, CallType, Form
<1>3. ItemInv'
  BY <1>1 DEF ContentInv, ItemInv, Form
<1>4. LedgerInv'
  BY <1>1 DEF ContentInv, LedgerInv, Shows
<1>5. RequestsTakeEffectOnce'
  BY <1>1 DEF ContentInv, RequestsTakeEffectOnce, Transitions, Recorded
<1>6. QED BY <1>2, <1>3, <1>4, <1>5 DEF ContentInv

LEMMA CreateStep ==
  ASSUME ContentInv, NEW s \in Schedules, Create(s)
  PROVE  ContentInv'
<1>1. /\ UNCHANGED <<now, updates, ledger, forms, calls, answer, deliveries>>
      /\ item' = [item EXCEPT !.state = "draft", !.from = s.from, !.to = s.to]
      /\ item.state = "absent"
  BY DEF Create, admin
<1>2. item \in ItemType /\ s.from \in Nat /\ s.to \in Nat \cup {None}
  BY StatusAssumption DEF StatusAssumption, ContentInv, ContentTypes
<1>3. /\ item' \in ItemType /\ item'.kind = item.kind /\ item'.state = "draft" /\ item'.life = item.life
      /\ item'.to = s.to
  BY <1>1, <1>2 DEF ItemType
<1>4. forms = <<>> /\ Form = {}
  BY <1>1, EmptySeq DEF ContentInv, ItemInv, Form
<1>5. ContentTypes'
  BY <1>1, <1>3 DEF ContentInv, ContentTypes, CallType, Form
<1>6. item.kind = "maintenance" => s.to \in Nat
  BY <1>2 DEF Create, MayCreateMaintenance
<1>7. updates = <<>>
  BY <1>1 DEF ContentInv, ItemInv
<1>8. ItemInv'
  BY <1>1, <1>2, <1>3, <1>4, <1>6, <1>7 DEF ItemInv, StatesOf, Form, ItemType, Kind
<1>9. LedgerInv'
  BY <1>1, <1>3, <1>4 DEF ContentInv, ContentTypes, LedgerInv
<1>10. Transitions' = Transitions
  BY <1>1, <1>2, <1>3 DEF Transitions, ItemType, Kind
<1>11. answer = None
  <2>1. [req : Form, life : Lifecycle] = {}
    BY <1>4
  <2>2. QED BY <2>1 DEF ContentInv, ContentTypes
<1>12. RequestsTakeEffectOnce'
  BY <1>1, <1>7, <1>10, <1>11 DEF ContentInv, RequestsTakeEffectOnce
<1>13. QED BY <1>5, <1>8, <1>9, <1>12 DEF ContentInv

LEMMA OpenFormStep ==
  ASSUME ContentInv, OpenForm
  PROVE  ContentInv'
<1> DEFINE f == [op |-> Offered, life |-> item.life]
<1>1. /\ forms' = Append(forms, f) /\ Len(forms) < MaxForms /\ Offered # None
      /\ UNCHANGED <<now, item, updates, ledger, calls, answer, deliveries>>
  BY DEF OpenForm, content
<1>2. item \in ItemType /\ forms \in Seq(FormType)
  BY DEF ContentInv, ContentTypes
<1>3. Offered \in OpsOf(item.kind) /\ item.state # "absent"
  BY <1>1, <1>2 DEF Offered, OfferedForIncident, OfferedForMaintenance, OfferedForAnnouncement, OpsOf,
     ItemType, Kind
<1>4. f \in FormType
  BY <1>2, <1>3 DEF FormType, OpsOf, ItemType, Kind
<1> HIDE DEF f
<1>5. /\ forms' \in Seq(FormType) /\ Len(forms') = Len(forms) + 1 /\ Len(forms) \in Nat
      /\ forms'[Len(forms) + 1] = f /\ \A q \in Form : forms'[q] = forms[q]
  BY <1>1, <1>2, <1>4, AppendProperties, LenProperties DEF Form
<1>6. Form \subseteq Form' /\ CallType \subseteq CallType' /\ Form' = Form \cup {Len(forms) + 1}
  <2>1. Form \subseteq Form' /\ Form' = Form \cup {Len(forms) + 1}
    BY <1>5 DEF Form
  <2>2. QED BY <1>1, <2>1 DEF CallType
<1>7. updates \in Seq(CallType')
  BY <1>6, SeqGrows DEF ContentInv, ContentTypes
<1>8. ContentTypes'
  <2>1. now' \in Nat /\ item' \in ItemType /\ forms' \in Seq(FormType) /\ Len(forms') <= MaxForms
    BY <1>1, <1>2, <1>5 DEF ContentInv, ContentTypes
  <2>2. ledger' \in SUBSET Form' /\ calls' \in SUBSET CallType'
    BY <1>1, <1>6 DEF ContentInv, ContentTypes
  <2>3. answer' \in {None} \cup [req : Form', life : Lifecycle]
    BY <1>1, <1>6 DEF ContentInv, ContentTypes
  <2>4. QED BY <1>1, <1>7, <2>1, <2>2, <2>3 DEF ContentTypes
<1>9. ItemInv'
  <2>1. \A q \in Form' : forms'[q].op \in OpsOf(item.kind)
    BY <1>3, <1>5, <1>6 DEF ContentInv, ItemInv, f
  <2>2. QED BY <1>1, <1>3, <2>1 DEF ContentInv, ItemInv
<1>10. LedgerInv'
  <2>1. \A q \in ledger : forms'[q] = forms[q]
    BY <1>5 DEF ContentInv, ContentTypes
  <2>2. QED BY <1>1, <2>1 DEF ContentInv, LedgerInv, Shows
<1>11. RequestsTakeEffectOnce'
  <2>1. answer # None => forms'[answer.req] = forms[answer.req]
    BY <1>5 DEF ContentInv, ContentTypes
  <2>2. QED BY <1>1, <2>1 DEF ContentInv, RequestsTakeEffectOnce, Transitions, Recorded
<1>12. QED BY <1>8, <1>9, <1>10, <1>11 DEF ContentInv

\* A submission waits as a call, or is answered as one that was recorded.
LEMMA Submitted ==
  ASSUME ContentInv, UNCHANGED <<now, item, updates, ledger, forms, deliveries>>,
         calls' \in SUBSET CallType,
         \/ answer' = answer \/ answer' = None
         \/ /\ answer' \in [req : Form, life : Lifecycle] /\ forms[answer'.req].op = "update"
            /\ \E i \in Recorded(answer'.req) : updates[i].life = answer'.life
  PROVE  ContentInv'
<1>1. ContentTypes'
  BY DEF ContentInv, ContentTypes, CallType, Form
<1>2. ItemInv'
  BY DEF ContentInv, ItemInv, Form
<1>3. LedgerInv'
  BY DEF ContentInv, LedgerInv, Shows
<1>4. RequestsTakeEffectOnce'
  BY DEF ContentInv, RequestsTakeEffectOnce, Transitions, Recorded
<1>5. QED BY <1>1, <1>2, <1>3, <1>4 DEF ContentInv

LEMMA SubmitStep ==
  ASSUME ContentInv, NEW q \in Form, NEW life \in Lifecycle,
         SubmitIncident(q, life) \/ SubmitMaintenance(q) \/ SubmitAnnouncement(q)
  PROVE  ContentInv'
<1>1. UNCHANGED <<now, item, updates, ledger, forms, deliveries>>
  BY DEF SubmitIncident, SubmitMaintenance, SubmitAnnouncement, SubmitFrame, content
<1>2. item.life \in Lifecycle /\ now \in 0..now
  BY DEF ContentInv, ContentTypes, ItemType
<1>3. ASSUME NEW l \in Lifecycle, Call(q, l)
      PROVE  ContentInv'
  <2>1. [req |-> q, life |-> l, at |-> now] \in CallType
    BY <1>2 DEF CallType
  <2>2. calls' \in SUBSET CallType /\ answer' = answer
    BY <1>3, <2>1 DEF ContentInv, ContentTypes, Call
  <2>3. QED BY <1>1, <2>2, Submitted
<1>4. CASE SubmitIncident(q, life) /\ forms[q].op = "update" /\ Recorded(q) # {}
  <2>1. calls' \in SUBSET CallType
    BY <1>4 DEF SubmitIncident, ContentInv, ContentTypes
  <2>2. CASE \E i \in Recorded(q) : updates[i].life = life
    <3>1. answer' = [req |-> q, life |-> life]
      BY <1>4, <2>2 DEF SubmitIncident
    <3>2. QED BY <1>1, <1>4, <2>1, <2>2, <3>1, Submitted
  <2>3. CASE ~\E i \in Recorded(q) : updates[i].life = life
    <3>1. answer' = None
      BY <1>4, <2>3 DEF SubmitIncident
    <3>2. QED BY <1>1, <2>1, <3>1, Submitted
  <2>4. QED BY <2>2, <2>3
<1>5. CASE SubmitIncident(q, life) /\ ~(forms[q].op = "update" /\ Recorded(q) # {})
  BY <1>3, <1>5 DEF SubmitIncident
<1>6. CASE SubmitMaintenance(q) \/ SubmitAnnouncement(q)
  BY <1>2, <1>3, <1>6 DEF SubmitMaintenance, SubmitAnnouncement
<1>7. QED BY <1>4, <1>5, <1>6

-----------------------------------------------------------------------------
(* The RPCs *)

Fresh(n) == n.attempts = 0 /\ n.token = None /\ n.status \in {"pending", "suppressed"}
Grown == \E n \in DeliveryType : Fresh(n) /\ deliveries' = Append(deliveries, n)

LEMMA EventAppends ==
  ASSUME SendTypes, NEW type \in {"published", "update", "resolved", "cancelled"}, NEW at \in Nat,
         Event(type, at)
  PROVE  Grown /\ Len(deliveries') = Len(deliveries) + 1
<1> DEFINE n == [type |-> type, occurred |-> at,
                 status |-> IF ready /\ ~muted THEN "pending" ELSE "suppressed",
                 attempts |-> 0, due |-> TRUE, token |-> None, recalled |-> FALSE]
<1>1. n \in DeliveryType /\ Fresh(n)
  BY DEF DeliveryType, Fresh, Undelivered
<1>2. deliveries' = Append(deliveries, n)
  BY DEF Event
<1> HIDE DEF n
<1>3. QED BY <1>1, <1>2, AppendProperties DEF Grown, SendTypes

LEMMA ReplyStep ==
  ASSUME ContentInv, NEW c \in calls, NEW ok \in BOOLEAN, Reply(c, ok),
         ok => IF forms[c.req].op = "update" THEN \E i \in Recorded(c.req) : updates[i].life = c.life
               ELSE Shows(forms[c.req].op)
  PROVE  ContentInv' /\ deliveries' = deliveries /\ UNCHANGED sending
<1>1. /\ UNCHANGED <<now, item, updates, ledger, forms, deliveries, sending>>
      /\ calls' = calls \ {c}
      /\ answer' = IF ok THEN [req |-> c.req, life |-> c.life] ELSE None
  BY DEF Reply, Answer, content
<1>2. c.req \in Form /\ c.life \in Lifecycle
  BY DEF ContentInv, ContentTypes, CallType
<1>3. ContentTypes'
  BY <1>1, <1>2 DEF ContentInv, ContentTypes, CallType, Form
<1>4. ItemInv'
  BY <1>1 DEF ContentInv, ItemInv, Form
<1>5. LedgerInv'
  BY <1>1 DEF ContentInv, LedgerInv, Shows
<1>6. RequestsTakeEffectOnce'
  <2>1. CASE ok
    <3>1. answer'.req = c.req /\ answer'.life = c.life
      BY <1>1, <2>1
    <3>2. QED BY <1>1, <2>1, <3>1 DEF ContentInv, RequestsTakeEffectOnce, Transitions, Recorded, Shows
  <2>2. CASE ~ok
    <3>1. answer' = None
      BY <1>1, <2>2
    <3>2. QED BY <1>1, <3>1 DEF ContentInv, RequestsTakeEffectOnce, Transitions
  <2>3. QED BY <2>1, <2>2
<1>7. QED BY <1>1, <1>3, <1>4, <1>5, <1>6 DEF ContentInv

\* One more update of an incident, with its event.
LEMMA UpdateRecorded ==
  ASSUME ContentInv, SendTypes, NEW c \in calls, NEW life \in Lifecycle,
         item.kind = "incident", item.life <= life, Recorded(c.req) = {},
         item' = [item EXCEPT !.state = "published", !.life = life],
         forms[c.req].op = "update" => life = c.life,
         updates' = Append(updates, [req |-> c.req, life |-> life, at |-> c.at]),
         Answer(c, TRUE), UNCHANGED ledger, Len(deliveries') = Len(deliveries) + 1
  PROVE  ContentInv'
<1> DEFINE u == [req |-> c.req, life |-> life, at |-> c.at]
<1>1. /\ UNCHANGED <<now, forms, ledger>> /\ calls' = calls \ {c}
      /\ answer' = [req |-> c.req, life |-> c.life]
  BY DEF Answer
<1>2. c \in CallType /\ c.req \in Form /\ c.life \in Lifecycle /\ u \in CallType /\ item \in ItemType
  BY DEF ContentInv, ContentTypes, CallType
<1>3. /\ item' \in ItemType /\ item'.kind = "incident" /\ item'.state = "published" /\ item'.life = life
      /\ item'.archivedAt = item.archivedAt
  BY <1>2 DEF ItemType
<1> HIDE DEF u
<1>4. updates \in Seq(CallType) /\ Len(updates) \in Nat
  BY LenProperties DEF ContentInv, ContentTypes
<1>5. /\ updates' \in Seq(CallType) /\ Len(updates') = Len(updates) + 1
      /\ updates'[Len(updates) + 1] = u /\ \A i \in 1..Len(updates) : updates'[i] = updates[i]
  BY <1>2, <1>4, AppendProperties DEF u
<1>6. u.req = c.req /\ u.life = life
  BY DEF u
<1>7. updates' # <<>>
  BY <1>4, <1>5, EmptySeq
<1>8. ContentTypes'
  BY <1>1, <1>2, <1>3, <1>5 DEF ContentInv, ContentTypes, CallType, Form
<1>9. ItemInv'
  <2>1. item'.kind = item.kind
    BY <1>3
  <2>2. item'.state \in StatesOf(item'.kind)
    BY <1>3 DEF StatesOf
  <2>3. QED BY <1>1, <1>3, <1>7, <2>1, <2>2 DEF ContentInv, ItemInv, Form
<1>10. LedgerInv'
  BY <1>3 DEF LedgerInv
<1>11. RequestsTakeEffectOnce'
  <2>1. ASSUME NEW i \in 1..Len(updates), NEW k \in 1..Len(updates), i < k
        PROVE  updates[i].req # updates[k].req /\ updates[i].life <= updates[k].life
    BY <2>1 DEF ContentInv, RequestsTakeEffectOnce
  <2>2. ASSUME NEW i \in 1..Len(updates)
        PROVE  updates[i].req # c.req /\ updates[i].life <= life
    <3>1. updates[i].req # c.req
      BY DEF Recorded
    <3>2. updates # <<>>
      BY EmptySeq, <1>4
    <3>3. updates[Len(updates)].life = item.life
      BY <3>2 DEF ContentInv, RequestsTakeEffectOnce
    <3>4. Len(updates) \in 1..Len(updates)
      BY <1>4
    <3>5. updates[i].life \in Lifecycle /\ item.life \in Lifecycle
      <4>1. updates[i] \in CallType
        BY <1>4, LenProperties
      <4>2. QED BY <1>2, <4>1 DEF CallType, ItemType
    <3>6. updates[i].life <= item.life
      <4>1. CASE i = Len(updates)
        BY <3>3, <3>5, <4>1 DEF Lifecycle, Resolved
      <4>2. CASE i < Len(updates)
        BY <2>1, <3>3, <3>4, <4>2
      <4>3. QED BY <1>4, <4>1, <4>2
    <3>7. QED BY <3>1, <3>5, <3>6 DEF Lifecycle, Resolved
  <2>3. ASSUME NEW i \in 1..Len(updates'), NEW k \in 1..Len(updates'), i < k
        PROVE  updates'[i].req # updates'[k].req /\ updates'[i].life <= updates'[k].life
    <3>1. i \in 1..Len(updates)
      BY <1>4, <1>5, <2>3
    <3>2. CASE k \in 1..Len(updates)
      BY <1>5, <2>1, <2>3, <3>1, <3>2
    <3>3. CASE k = Len(updates) + 1
      BY <1>5, <1>6, <2>2, <3>1, <3>3
    <3>4. QED BY <1>4, <1>5, <3>2, <3>3
  <2>4. item'.life = updates'[Len(updates')].life
    BY <1>3, <1>5, <1>6
  <2>5. Len(deliveries') = Transitions'
    <3>1. Len(deliveries) = Len(updates)
      BY DEF ContentInv, RequestsTakeEffectOnce, Transitions
    <3>2. QED BY <1>3, <1>5, <3>1 DEF Transitions
  <2>6. answer'.req = c.req /\ answer'.life = c.life /\ forms' = forms
    BY <1>1
  <2>7. ASSUME forms[c.req].op = "update"
        PROVE  \E i \in Recorded(c.req)' : updates'[i].life = c.life
    <3>1. Len(updates) + 1 \in 1..Len(updates')
      BY <1>4, <1>5
    <3>2. Len(updates) + 1 \in Recorded(c.req)'
      BY <1>5, <1>6, <3>1 DEF Recorded
    <3>3. QED BY <1>5, <1>6, <2>7, <3>2
  <2>8. forms[c.req].op \in {"update", "publish"}
    BY <1>2 DEF ContentInv, ItemInv, OpsOf
  <2>9. QED BY <1>3, <2>3, <2>4, <2>5, <2>6, <2>7, <2>8 DEF RequestsTakeEffectOnce, Recorded
<1>12. QED BY <1>8, <1>9, <1>10, <1>11 DEF ContentInv

LEMMA PublishIncidentStep ==
  ASSUME ContentInv, SendTypes, NEW c \in calls, item.kind = "incident", forms[c.req].op = "publish",
         PublishIncident(c)
  PROVE  ContentInv' /\ (deliveries' = deliveries \/ Grown) /\ UNCHANGED sending
<1>1. c.at \in Nat /\ item \in ItemType
  BY DEF ContentInv, ContentTypes, CallType
<1>2. CASE item.state = "published"
  BY <1>2, ReplyStep DEF PublishIncident, Shows
<1>3. CASE item.state = "draft"
  <2>1. /\ item' = [item EXCEPT !.state = "published"]
        /\ updates' = Append(updates, [req |-> c.req, life |-> item.life, at |-> c.at])
        /\ Event("published", c.at)
        /\ Answer(c, TRUE) /\ UNCHANGED ledger
    BY <1>3 DEF PublishIncident
  <2>2. Grown /\ Len(deliveries') = Len(deliveries) + 1
    BY <1>1, <2>1, EventAppends
  <2>3. item.life \in Lifecycle /\ item.life <= item.life
    BY <1>1 DEF ItemType, Lifecycle, Resolved
  <2>4. item' = [item EXCEPT !.state = "published", !.life = item.life]
    BY <1>1, <2>1 DEF ItemType
  <2>5. Recorded(c.req) = {}
    <3>1. updates = <<>>
      BY <1>3 DEF ContentInv, ItemInv
    <3>2. QED BY <3>1, EmptySeq DEF Recorded
  <2>6. ContentInv'
    BY <2>1, <2>2, <2>3, <2>4, <2>5, UpdateRecorded
  <2>7. QED BY <2>1, <2>2, <2>6 DEF Answer
<1>4. QED BY <1>2, <1>3 DEF PublishIncident

LEMMA AppendUpdateStep ==
  ASSUME ContentInv, SendTypes, NEW c \in calls, item.kind = "incident", AppendUpdate(c)
  PROVE  ContentInv' /\ (deliveries' = deliveries \/ Grown) /\ UNCHANGED sending
<1>1. c.at \in Nat /\ c.life \in Lifecycle /\ item \in ItemType
  BY DEF ContentInv, ContentTypes, CallType
<1>2. CASE ~MayAppend(c)
  BY <1>2, ReplyStep DEF AppendUpdate
<1>3. CASE MayAppend(c)
  <2>1. /\ item' = [item EXCEPT !.life = c.life]
        /\ updates' = Append(updates, [req |-> c.req, life |-> c.life, at |-> c.at])
        /\ Event(IF c.life = Resolved THEN "resolved" ELSE "update", c.at)
        /\ Answer(c, TRUE) /\ UNCHANGED ledger
    BY <1>3 DEF AppendUpdate
  <2>2. Grown /\ Len(deliveries') = Len(deliveries) + 1
    BY <1>1, <2>1, EventAppends
  <2>3. item.life <= c.life /\ item.state = "published" /\ Recorded(c.req) = {}
    BY <1>1, <1>3 DEF MayAppend, ItemType, Lifecycle, Resolved
  <2>4. item' = [item EXCEPT !.state = "published", !.life = c.life]
    BY <1>1, <2>1, <2>3 DEF ItemType
  <2>5. ContentInv'
    BY <1>1, <2>1, <2>2, <2>3, <2>4, UpdateRecorded
  <2>6. QED BY <2>1, <2>2, <2>5 DEF Answer
<1>4. QED BY <1>2, <1>3

\* What a request that changes something changes it from, and to.
LEMMA ItemChanges ==
  ASSUME ContentInv, NEW c \in calls, item.kind # "incident",
         ~Refused(c), item.state # Target(forms[c.req].op), item' = Changed(c)
  PROVE  /\ item' \in ItemType /\ item'.kind = item.kind /\ item'.state = Target(forms[c.req].op)
         /\ item'.to = item.to /\ item'.from = item.from
         /\ item'.archivedAt = IF forms[c.req].op = "archive" THEN c.at ELSE item.archivedAt
         /\ forms[c.req].op \in {"publish", "cancel", "archive"}
         /\ forms[c.req].op = "publish" => item.state = "draft"
         /\ forms[c.req].op = "cancel" => item.kind = "maintenance" /\ item.state = "published"
         /\ forms[c.req].op = "archive" => item.kind = "announcement" /\ item.state = "published"
<1> DEFINE op == forms[c.req].op
           a == IF op = "archive" THEN c.at ELSE item.archivedAt
<1>1. c.at \in 0..now /\ now \in Nat /\ c.req \in Form /\ item \in ItemType
  BY DEF ContentInv, ContentTypes, CallType
<1>2. op \in OpsOf(item.kind) /\ item.state \in StatesOf(item.kind) /\ item.state # "absent"
  <2>1. Form # {} => forms # <<>>
    BY EmptySeq DEF Form
  <2>2. QED BY <1>1, <2>1 DEF ContentInv, ItemInv
<1>3. item.kind \in {"maintenance", "announcement"}
  BY <1>1 DEF ItemType, Kind
<1>4. op \in {"publish", "cancel", "archive"}
  BY <1>2, <1>3 DEF OpsOf
<1>5. item' = [item EXCEPT !.state = Target(op), !.archivedAt = a]
  BY <1>1 DEF Changed, ItemType
<1>6. a \in Nat \cup {None} /\ Target(op) \in {"published", "cancelled", "archived"}
  BY <1>1, <1>4 DEF ItemType, Target
<1>7. /\ op = "publish" => item.state = "draft"
      /\ op = "cancel" => item.kind = "maintenance" /\ item.state = "published"
      /\ op = "archive" => item.kind = "announcement" /\ item.state = "published"
  BY <1>2, <1>3, <1>4 DEF Refused, Target, OpsOf, StatesOf
<1> HIDE DEF a, op
<1>8. /\ item' \in ItemType /\ item'.kind = item.kind /\ item'.state = Target(op)
      /\ item'.to = item.to /\ item'.from = item.from /\ item'.archivedAt = a
  BY <1>1, <1>5, <1>6 DEF ItemType
<1>9. QED BY <1>4, <1>7, <1>8 DEF a, op

LEMMA ChangeStep ==
  ASSUME ContentInv, SendTypes, NEW c \in calls, item.kind # "incident", Change(c)
  PROVE  ContentInv' /\ (deliveries' = deliveries \/ Grown) /\ UNCHANGED sending
<1> DEFINE op == forms[c.req].op
<1>1. c.at \in 0..now /\ now \in Nat /\ c.req \in Form /\ c.life \in Lifecycle /\ item \in ItemType
  BY DEF ContentInv, ContentTypes, CallType
<1>2. op \in OpsOf(item.kind) /\ item.state \in StatesOf(item.kind) /\ item.state # "absent"
  <2>1. Form # {} => forms # <<>>
    BY EmptySeq DEF Form
  <2>2. QED BY <1>1, <2>1 DEF ContentInv, ItemInv
<1>3. item.kind \in {"maintenance", "announcement"}
  BY <1>1 DEF ItemType, Kind
<1>4. op # "update" /\ op \in {"publish", "cancel", "archive"}
  BY <1>2, <1>3 DEF OpsOf
<1>5. CASE c.req \in ledger /\ Reply(c, TRUE)
  <2>1. Shows(op)
    BY <1>5 DEF ContentInv, LedgerInv
  <2>2. QED BY <1>4, <1>5, <2>1, ReplyStep
<1>6. CASE Reply(c, FALSE)
  BY <1>6, ReplyStep
<1>7. CASE /\ c.req \notin ledger /\ ~Refused(c) /\ ledger' = ledger \cup {c.req}
           /\ IF item.state = Target(op) THEN UNCHANGED <<item, deliveries>>
              ELSE item' = Changed(c) /\ Announce(c)
           /\ Answer(c, TRUE) /\ UNCHANGED updates
  <2>1. /\ UNCHANGED <<now, forms, updates, sending>> /\ calls' = calls \ {c}
        /\ answer' = [req |-> c.req, life |-> c.life]
    BY <1>7 DEF Answer
  <2>2. answer'.req = c.req /\ answer'.life = c.life
    BY <2>1
  <2>3. updates = <<>>
    BY DEF ContentInv, ItemInv
  <2>4. ASSUME item' \in ItemType
        PROVE  ContentTypes'
    BY <1>1, <1>7, <2>1, <2>4 DEF ContentInv, ContentTypes, CallType, Form
  <2>5. ASSUME Shows(op)', Len(deliveries') = Transitions'
        PROVE  RequestsTakeEffectOnce'
    BY <1>4, <2>1, <2>2, <2>3, <2>5, EmptySeq DEF RequestsTakeEffectOnce, Shows
  <2>6. CASE item.state = Target(op)
    <3>1. UNCHANGED <<item, deliveries>>
      BY <1>7, <2>6
    <3>2. Shows(op) /\ Shows(op)'
      BY <1>4, <2>1, <2>6, <3>1 DEF Shows, Target
    <3>3. ItemInv'
      BY <2>1, <3>1 DEF ContentInv, ItemInv, Form
    <3>4. LedgerInv'
      <4>1. \A q \in ledger' : Shows(forms[q].op)'
        BY <1>7, <2>1, <3>1, <3>2 DEF ContentInv, LedgerInv, Shows
      <4>2. ledger \subseteq ledger'
        BY <1>7
      <4>3. QED BY <2>1, <3>1, <4>1, <4>2 DEF ContentInv, LedgerInv
    <3>5. Len(deliveries') = Transitions'
      BY <2>1, <3>1 DEF ContentInv, RequestsTakeEffectOnce, Transitions
    <3>6. QED BY <1>1, <2>1, <2>4, <2>5, <3>1, <3>2, <3>3, <3>4, <3>5 DEF ContentInv
  <2>7. CASE item.state # Target(op)
    <3>1. item' = Changed(c) /\ Announce(c)
      BY <1>7, <2>7
    <3>2. /\ item' \in ItemType /\ item'.kind = item.kind /\ item'.state = Target(op) /\ item'.to = item.to
          /\ item'.archivedAt = IF op = "archive" THEN c.at ELSE item.archivedAt
      BY <1>7, <2>7, <3>1, ItemChanges
    <3>3. /\ op = "publish" => item.state = "draft"
          /\ op = "cancel" => item.kind = "maintenance" /\ item.state = "published"
          /\ op = "archive" => item.kind = "announcement" /\ item.state = "published"
      BY <1>7, <2>7, <3>1, ItemChanges
    <3>4. ItemInv'
      <4>1. item'.state \in StatesOf(item.kind)
        BY <1>2, <1>3, <3>2 DEF StatesOf, OpsOf, Target
      <4>2. item'.state = "archived" => item'.archivedAt \in 0..now
        BY <1>1, <1>4, <3>2 DEF Target
      <4>3. item'.state # "absent"
        BY <1>4, <3>2 DEF Target
      <4>4. QED BY <1>2, <2>1, <2>3, <3>2, <4>1, <4>2, <4>3 DEF ContentInv, ItemInv, Form
    <3>5. Shows(op)'
      BY <1>4, <2>1, <3>2 DEF Shows, Target
    <3>6. LedgerInv'
      <4>1. ASSUME NEW q \in ledger
            PROVE  Shows(forms[q].op)'
        <5>1. Shows(forms[q].op) /\ q \in Form
          BY DEF ContentInv, LedgerInv, ContentTypes
        <5>2. forms[q].op \in OpsOf(item.kind)
          BY <5>1 DEF ContentInv, ItemInv
        <5>3. QED BY <1>2, <1>3, <1>4, <2>1, <3>2, <3>3, <5>1, <5>2 DEF Shows, Target, OpsOf
      <4>2. \A q \in ledger' : Shows(forms[q].op)'
        BY <1>7, <3>5, <4>1
      <4>3. \E q \in ledger' : forms'[q].op = "publish"
        <5>1. CASE op = "publish"
          BY <1>7, <2>1, <5>1
        <5>2. CASE op # "publish"
          <6>1. item.state = "published"
            BY <1>4, <3>3, <5>2
          <6>2. PICK q \in ledger : forms[q].op = "publish"
            BY <6>1 DEF ContentInv, LedgerInv
          <6>3. QED BY <1>7, <2>1, <6>2
        <5>3. QED BY <5>1, <5>2
      <4>4. item'.state = "cancelled" => \E q \in ledger' : forms'[q].op = "cancel"
        BY <1>4, <1>7, <2>1, <3>2 DEF Target
      <4>5. QED BY <4>2, <4>3, <4>4 DEF LedgerInv
    <3>7. Len(deliveries) = Transitions
      BY DEF ContentInv, RequestsTakeEffectOnce
    <3>8. CASE op = "publish"
      <4>1. Event("published", IF item.kind = "announcement" THEN item.from ELSE c.at)
        BY <3>1, <3>8 DEF Announce
      <4>2. (IF item.kind = "announcement" THEN item.from ELSE c.at) \in Nat
        BY <1>1 DEF ItemType
      <4>3. Grown /\ Len(deliveries') = Len(deliveries) + 1
        BY <4>1, <4>2, EventAppends
      <4>4. Len(deliveries') = Transitions'
        BY <1>3, <3>2, <3>3, <3>7, <3>8, <4>3 DEF Transitions, Target
      <4>5. QED BY <2>1, <2>4, <2>5, <3>2, <3>4, <3>5, <3>6, <4>3, <4>4 DEF ContentInv
    <3>9. CASE op = "cancel"
      <4>1. Event("cancelled", c.at)
        BY <3>1, <3>9 DEF Announce
      <4>2. Grown /\ Len(deliveries') = Len(deliveries) + 1
        BY <1>1, <4>1, EventAppends
      <4>3. Len(deliveries') = Transitions'
        BY <3>2, <3>3, <3>7, <3>9, <4>2 DEF Transitions, Target
      <4>4. QED BY <2>1, <2>4, <2>5, <3>2, <3>4, <3>5, <3>6, <4>2, <4>3 DEF ContentInv
    <3>10. CASE op = "archive"
      <4>1. deliveries' = deliveries
        BY <3>1, <3>10 DEF Announce
      <4>2. Len(deliveries') = Transitions'
        BY <3>2, <3>3, <3>7, <3>10, <4>1 DEF Transitions, Target
      <4>3. QED BY <2>1, <2>4, <2>5, <3>2, <3>4, <3>5, <3>6, <4>1, <4>2 DEF ContentInv
    <3>11. QED BY <1>4, <3>8, <3>9, <3>10
  <2>8. QED BY <2>6, <2>7
<1>8. QED BY <1>5, <1>6, <1>7 DEF Change

LEMMA CommitStep ==
  ASSUME ContentInv, SendTypes, NEW c \in calls, Commit(c)
  PROVE  ContentInv' /\ (deliveries' = deliveries \/ Grown) /\ UNCHANGED sending
BY PublishIncidentStep, AppendUpdateStep, ChangeStep DEF Commit

LEMMA TickStep ==
  ASSUME ContentInv, Tick
  PROVE  ContentInv'
<1>1. UNCHANGED <<item, updates, ledger, forms, calls, answer, deliveries>> /\ now' = now + 1
  BY DEF Tick, content, admin
<1>2. now \in Nat /\ now' \in Nat /\ 0..now \subseteq 0..now'
  BY <1>1 DEF ContentInv, ContentTypes
<1>3. Form' = Form /\ CallType \subseteq CallType'
  BY <1>1, <1>2 DEF Form, CallType
<1>4. updates \in Seq(CallType')
  BY <1>3, SeqGrows DEF ContentInv, ContentTypes
<1>5. ContentTypes'
  BY <1>1, <1>2, <1>3, <1>4 DEF ContentInv, ContentTypes
<1>6. ItemInv'
  BY <1>1, <1>2, <1>3 DEF ContentInv, ItemInv
<1>7. LedgerInv'
  BY <1>1 DEF ContentInv, LedgerInv, Shows
<1>8. RequestsTakeEffectOnce'
  BY <1>1 DEF ContentInv, RequestsTakeEffectOnce, Transitions, Recorded
<1>9. QED BY <1>5, <1>6, <1>7, <1>8 DEF ContentInv

\* A delivery is owed to a request of its own.
LEMMA FewEvents == ContentInv => Len(deliveries) <= MaxEvents
<1> SUFFICES ASSUME ContentInv PROVE Len(deliveries) <= MaxEvents
  OBVIOUS
<1>1. Len(forms) \in Nat /\ Len(forms) <= MaxForms /\ Len(updates) \in Nat /\ MaxForms \in Nat
  BY LenProperties DEF ContentInv, ContentTypes
<1>2. Len(deliveries) = Transitions /\ item \in ItemType /\ item.state \in StatesOf(item.kind)
  BY DEF ContentInv, ContentTypes, ItemInv, RequestsTakeEffectOnce
<1>3. CASE item.kind = "incident"
  <2> DEFINE f == [i \in 1..Len(updates) |-> updates[i].req]
  <2>1. f \in [1..Len(updates) -> Form]
    <3>1. \A i \in 1..Len(updates) : updates[i] \in CallType
      BY LenProperties DEF ContentInv, ContentTypes
    <3>2. QED BY <3>1 DEF CallType
  <2>2. \A i, k \in 1..Len(updates) : i # k => f[i] # f[k]
    BY <1>1 DEF ContentInv, RequestsTakeEffectOnce
  <2> HIDE DEF f
  <2>3. f \in Injection(1..Len(updates), Form)
    BY <2>1, <2>2 DEF Injection, IsInjective
  <2>4. /\ IsFiniteSet(Form) /\ Cardinality(Form) = Len(forms)
        /\ Cardinality(1..Len(updates)) = Len(updates)
    <3>1. \A n \in Nat : IsFiniteSet(1..n) /\ Cardinality(1..n) = n
      <4>1. \A a, b \in Int : IsFiniteSet(a..b) /\ Cardinality(a..b) = IF a > b THEN 0 ELSE b - a + 1
        BY FS_Interval, Zenon
      <4>2. TAKE n \in Nat
      <4>3. 1 \in Int /\ n \in Int /\ (IF 1 > n THEN 0 ELSE n - 1 + 1) = n
        OBVIOUS
      <4>4. IsFiniteSet(1..n) /\ Cardinality(1..n) = IF 1 > n THEN 0 ELSE n - 1 + 1
        BY <4>1, <4>3, Zenon
      <4>5. QED BY <4>3, <4>4
    <3>2. QED BY <1>1, <3>1 DEF Form
  <2>5. Len(updates) <= Len(forms)
    BY <2>3, <2>4, FS_Injection
  <2>6. QED BY <1>1, <1>2, <1>3, <2>5 DEF Transitions, MaxEvents
<1>4. CASE item.kind # "incident" /\ item.state \notin {"absent", "draft"}
  <2>1. PICK q \in ledger : forms[q].op = "publish"
    BY <1>4 DEF ContentInv, LedgerInv
  <2>2. q \in Form
    BY DEF ContentInv, ContentTypes
  <2>3. CASE item.state = "cancelled"
    <3>1. PICK p \in ledger : forms[p].op = "cancel"
      BY <2>3 DEF ContentInv, LedgerInv
    <3>2. p \in Form /\ p # q
      BY <2>1, <3>1 DEF ContentInv, ContentTypes
    <3>3. Transitions <= 2
      BY <1>2, <1>4 DEF Transitions, ItemType, Kind
    <3>4. QED BY <1>1, <1>2, <2>2, <3>2, <3>3 DEF Form, MaxEvents
  <2>4. CASE item.state # "cancelled"
    <3>1. Transitions <= 1
      BY <1>2, <1>4, <2>4 DEF Transitions, ItemType, Kind
    <3>2. QED BY <1>1, <1>2, <2>2, <3>1 DEF Form, MaxEvents
  <2>5. QED BY <2>3, <2>4
<1>5. CASE item.kind # "incident" /\ item.state \in {"absent", "draft"}
  BY <1>1, <1>2, <1>5 DEF Transitions, ItemType, Kind, MaxEvents
<1>6. QED BY <1>3, <1>4, <1>5

-----------------------------------------------------------------------------
(* Counting *)

LEMMA SetsBut ==
  ASSUME NEW A \in SUBSET Dispatcher, NEW B \in SUBSET Dispatcher, NEW d, A \ {d} = B \ {d}
  PROVE  /\ Cardinality(A) \in Nat /\ Cardinality(B) \in Nat
         /\ (d \in A <=> d \in B) => Cardinality(A) = Cardinality(B)
         /\ d \in A /\ d \notin B => Cardinality(A) = Cardinality(B) + 1
         /\ d \notin A /\ d \in B => Cardinality(B) = Cardinality(A) + 1
<1>1. /\ IsFiniteSet(A) /\ Cardinality(A) \in Nat
      /\ IsFiniteSet(B) /\ Cardinality(B) \in Nat
  BY FS_Subset, FS_CardinalityType
<1>2. (d \in A <=> d \in B) => A = B
  OBVIOUS
<1>3. d \in A /\ d \notin B => A \ {d} = B
  OBVIOUS
<1>4. d \notin A /\ d \in B => B \ {d} = A
  OBVIOUS
<1>5. d \in A => Cardinality(A \ {d}) = Cardinality(A) - 1
  BY <1>1, FS_RemoveElement
<1>6. d \in B => Cardinality(B \ {d}) = Cardinality(B) - 1
  BY <1>1, FS_RemoveElement
<1>7. ASSUME d \in A, d \notin B
      PROVE  Cardinality(A) = Cardinality(B) + 1
  <2>1. Cardinality(B) = Cardinality(A) - 1
    BY <1>3, <1>5, <1>7
  <2>2. QED BY <1>1, <2>1
<1>8. ASSUME d \notin A, d \in B
      PROVE  Cardinality(B) = Cardinality(A) + 1
  <2>1. Cardinality(A) = Cardinality(B) - 1
    BY <1>4, <1>6, <1>8
  <2>2. QED BY <1>1, <2>1
<1>9. (d \in A <=> d \in B) => Cardinality(A) = Cardinality(B)
  BY <1>2
<1>10. QED BY <1>1, <1>7, <1>8, <1>9

PostsIn(s, r) == Cardinality({i \in 1..Len(s) : s[i] = r})

LEMMA PostsCount ==
  ASSUME NEW S, NEW s \in Seq(S), NEW r
  PROVE  /\ PostsIn(s, r) \in Nat
         /\ (\A i \in 1..Len(s) : s[i] # r) => PostsIn(s, r) = 0
         /\ \A x \in S : PostsIn(Append(s, x), r) = PostsIn(s, r) + (IF x = r THEN 1 ELSE 0)
<1> DEFINE N(t) == {i \in 1..Len(t) : t[i] = r}
<1>1. Len(s) \in Nat /\ IsFiniteSet(1..Len(s))
  BY LenProperties, FS_Interval
<1>2. IsFiniteSet(N(s)) /\ Cardinality(N(s)) \in Nat
  BY <1>1, FS_Subset, FS_CardinalityType
<1>3. (\A i \in 1..Len(s) : s[i] # r) => N(s) = {}
  OBVIOUS
<1>4. ASSUME NEW x \in S
      PROVE  Cardinality(N(Append(s, x))) = Cardinality(N(s)) + (IF x = r THEN 1 ELSE 0)
  <2> DEFINE t == Append(s, x)
  <2>1. Len(t) = Len(s) + 1 /\ t[Len(s) + 1] = x /\ \A i \in 1..Len(s) : t[i] = s[i]
    BY AppendProperties
  <2> HIDE DEF t
  <2>2. CASE x = r
    <3>1. N(t) = N(s) \cup {Len(s) + 1}
      BY <1>1, <2>1, <2>2
    <3>2. Len(s) + 1 \notin N(s)
      BY <1>1
    <3> HIDE DEF N
    <3>3. Cardinality(N(t)) = Cardinality(N(s)) + 1
      BY <1>2, <3>1, <3>2, FS_AddElement
    <3>4. QED BY <2>2, <3>3 DEF t
  <2>3. CASE x # r
    <3>1. N(t) = N(s)
      BY <1>1, <2>1, <2>3
    <3> HIDE DEF N
    <3>2. QED BY <1>2, <2>3, <3>1 DEF t
  <2>4. QED BY <2>2, <2>3
<1> HIDE DEF N
<1>5. PostsIn(s, r) = Cardinality(N(s)) /\ \A x \in S : PostsIn(Append(s, x), r) = Cardinality(N(Append(s, x)))
  BY DEF PostsIn, N
<1>6. (\A i \in 1..Len(s) : s[i] # r) => Cardinality(N(s)) = 0
  BY <1>3, FS_EmptySet
<1>7. \A x \in S : PostsIn(Append(s, x), r) = PostsIn(s, r) + (IF x = r THEN 1 ELSE 0)
  <2> TAKE x \in S
  <2>1. Cardinality(N(Append(s, x))) = Cardinality(N(s)) + (IF x = r THEN 1 ELSE 0)
    BY <1>4
  <2>2. QED BY <1>5, <2>1
<1>8. PostsIn(s, r) \in Nat
  BY <1>2, <1>5
<1>9. QED BY <1>5, <1>6, <1>7, <1>8

LEMMA RowFacts ==
  ASSUME SendInv
  PROVE  /\ Len(deliveries) \in Nat /\ Row \subseteq 1..MaxEvents /\ DOMAIN deliveries = Row
         /\ \A r \in Row : deliveries[r] \in DeliveryType /\ disturbed[r] \in Nat
<1>1. deliveries \in Seq(DeliveryType) /\ Len(deliveries) <= MaxEvents /\ disturbed \in [1..MaxEvents -> Nat]
  BY DEF SendInv, SendTypes
<1>2. Len(deliveries) \in Nat /\ deliveries \in [1..Len(deliveries) -> DeliveryType]
  BY <1>1, LenProperties
<1>3. Row = 1..Len(deliveries) /\ MaxEvents \in Nat
  BY DEF Row, MaxEvents
<1>4. Row \subseteq 1..MaxEvents
  BY <1>1, <1>2, <1>3
<1>5. QED BY <1>1, <1>2, <1>3, <1>4

Bit(p) == IF p THEN 1 ELSE 0

\* How the count of a row may change.
LEMMA Balance ==
  ASSUME SendInv, NEW d, NEW r \in Row, NEW n \in {0, 1}, NEW m \in {0, 1},
         Strays(r)' \ {d} = Strays(r) \ {d}, Strays(r)' \in SUBSET Dispatcher,
         Posts(r)' = Posts(r) + n, disturbed'[r] = disturbed[r] + m,
         n + Bit(d \in Strays(r)') + Bit(Made(r)) <= m + Bit(Made(r)') + Bit(d \in Strays(r))
  PROVE  Balanced(r)'
<1> DEFINE p == Posts(r)  q == Posts(r)'  n1 == Cardinality(Strays(r))  n2 == Cardinality(Strays(r)')
           b1 == Bit(d \in Strays(r))  b2 == Bit(d \in Strays(r)')
           d1 == disturbed[r]  d2 == disturbed'[r]  m1 == Bit(Made(r))  m2 == Bit(Made(r)')
<1>1. Strays(r) \in SUBSET Dispatcher
  BY DEF Strays
<1>2. /\ n1 \in Nat /\ n2 \in Nat
      /\ (d \in Strays(r) <=> d \in Strays(r)') => n1 = n2
      /\ d \in Strays(r) /\ d \notin Strays(r)' => n1 = n2 + 1
      /\ d \notin Strays(r) /\ d \in Strays(r)' => n2 = n1 + 1
  BY <1>1, SetsBut
<1>3. b1 \in {0, 1} /\ b2 \in {0, 1} /\ (d \in Strays(r) <=> b1 = 1) /\ (d \in Strays(r)' <=> b2 = 1)
  BY DEF Bit
<1>4. n2 + b1 = n1 + b2
  <2> HIDE DEF n1, n2, b1, b2
  <2>1. QED BY <1>2, <1>3
<1>5. p \in Nat
  <2>1. posted \in Seq(Row) /\ p = PostsIn(posted, r)
    BY DEF SendInv, SendTypes, Posts, PostsIn
  <2>2. QED BY <2>1, PostsCount
<1>6. d1 \in Nat /\ m1 \in {0, 1} /\ m2 \in {0, 1}
  BY RowFacts DEF Bit
<1>7. p + n1 <= d1 + m1
  BY DEF SendInv, PostsInv, Balanced, Bit
<1>8. q = p + n /\ d2 = d1 + m /\ n + b2 + m1 <= m + m2 + b1
  OBVIOUS
<1> SUFFICES q + n2 <= d2 + m2
  BY DEF Balanced, Bit
<1> HIDE DEF p, q, n1, n2, b1, b2, d1, d2, m1, m2
<1>9. QED BY <1>2, <1>3, <1>4, <1>5, <1>6, <1>7, <1>8

LEMMA InitSend == Init => SendInv
<1> SUFFICES ASSUME Init PROVE SendInv
  OBVIOUS
<1>1. Row = {} /\ Len(deliveries) = 0 /\ deliveries \in Seq(DeliveryType) /\ posted \in Seq(Row) /\ Len(posted) = 0
  BY EmptySeq DEF Init, Row
<1>2. SendTypes
  BY <1>1 DEF Init, SendTypes, Idle, DispType, MaxEvents
<1>3. ClaimsInv
  BY <1>1 DEF Init, ClaimsInv, Idle
<1>4. PostsInv /\ OrderInv
  BY <1>1 DEF Init, PostsInv, OrderInv
<1>5. QED BY <1>2, <1>3, <1>4 DEF SendInv

LEMMA SendStays ==
  ASSUME SendInv, UNCHANGED <<deliveries, disp, posted, disturbed>>
  PROVE  SendInv'
<1>1. SendTypes' /\ ClaimsInv'
  BY DEF SendInv, SendTypes, ClaimsInv, Row, Mine, Accepted
<1>2. PostsInv' /\ OrderInv'
  BY DEF SendInv, PostsInv, OrderInv, Balanced, Posts, Strays, Made, Mine, Row, Earlier
<1>3. QED BY <1>1, <1>2 DEF SendInv

\* A new event was neither claimed nor posted.
LEMMA SendGrows ==
  ASSUME SendInv, Grown, Len(deliveries') <= MaxEvents, UNCHANGED <<disp, posted, disturbed>>
  PROVE  SendInv'
<1> DEFINE new == Len(deliveries) + 1
<1>1. PICK n \in DeliveryType : Fresh(n) /\ deliveries' = Append(deliveries, n)
  BY DEF Grown
<1>2. /\ deliveries' \in Seq(DeliveryType) /\ Len(deliveries') = new /\ Len(deliveries) \in Nat
      /\ deliveries'[new] = n /\ \A r \in Row : deliveries'[r] = deliveries[r]
  BY <1>1, AppendProperties, LenProperties DEF SendInv, SendTypes, Row
<1>3. Row' = Row \cup {new} /\ new \notin Row /\ Row \subseteq Row' /\ \A r \in Row : r < new
  BY <1>2 DEF Row
<1>4. posted \in Seq(Row') /\ \A i \in 1..Len(posted) : posted[i] \in Row
  BY <1>3, SeqGrows DEF SendInv, SendTypes
<1>5. /\ n.attempts = 0 /\ n.token = None /\ n.status \in {"pending", "suppressed"}
  BY <1>1 DEF Fresh
<1> HIDE DEF new
<1>6. SendTypes'
  BY <1>2, <1>4 DEF SendInv, SendTypes
<1>7. \A d \in Dispatcher : disp[d].pc # "idle" => disp[d].row \in Row /\ (Mine(d)' <=> Mine(d))
  BY <1>2 DEF SendInv, ClaimsInv, Mine
<1>8. ClaimsInv'
  <2>1. ASSUME NEW r \in Row'
        PROVE  /\ deliveries'[r].token = None <=> deliveries'[r].status # "sending"
               /\ deliveries'[r].status = "sending" \/ Accepted(r)' => deliveries'[r].attempts > 0
               /\ deliveries'[r].token \in Dispatcher =>
                    disp'[deliveries'[r].token].pc # "idle" /\ disp'[deliveries'[r].token].row = r
    <3>1. CASE r \in Row
      BY <1>2, <3>1 DEF SendInv, ClaimsInv, Accepted
    <3>2. CASE r = new
      BY <1>2, <1>3, <1>4, <1>5, <3>2 DEF Accepted
    <3>3. QED BY <1>3, <3>1, <3>2
  <2>2. ASSUME NEW d \in Dispatcher, disp'[d].pc # "idle"
        PROVE  /\ disp'[d].row \in Row' /\ deliveries'[disp'[d].row].attempts > 0
               /\ disp'[d].pc = "post" => Mine(d)' \/ deliveries'[disp'[d].row].recalled
    BY <1>2, <1>3, <1>7, <2>2 DEF SendInv, ClaimsInv
  <2>3. QED BY <2>1, <2>2 DEF ClaimsInv
<1>9. ASSUME NEW r \in Row'
      PROVE  Balanced(r)'
  <2>1. CASE r \in Row
    <3>1. Strays(r)' = Strays(r)
      BY <1>7 DEF Strays
    <3>2. Made(r)' <=> Made(r)
      BY <1>2, <1>7, <2>1 DEF Made
    <3>3. Posts(r)' = Posts(r)
      BY DEF Posts
    <3>4. QED BY <2>1, <3>1, <3>2, <3>3 DEF SendInv, PostsInv, Balanced
  <2>2. CASE r = new
    <3>1. Strays(r)' = {}
      BY <1>3, <1>7, <2>2 DEF Strays
    <3>2. PostsIn(posted, r) = 0
      <4>1. posted \in Seq(Row) /\ \A i \in 1..Len(posted) : posted[i] # r
        BY <1>3, <1>4, <2>2 DEF SendInv, SendTypes
      <4>2. QED BY <4>1, PostsCount
    <3>3. Posts(r)' = 0
      BY <3>2 DEF Posts, PostsIn
    <3>4. disturbed'[r] \in Nat
      <4>1. r \in 1..MaxEvents
        BY <1>2, <1>6, <2>2 DEF SendTypes, new
      <4>2. QED BY <1>6, <4>1 DEF SendTypes
    <3>5. Cardinality(Strays(r)') = 0
      BY <3>1, FS_EmptySet
    <3>6. QED BY <3>3, <3>4, <3>5 DEF Balanced
  <2>3. QED BY <1>3, <2>1, <2>2
<1>10. OrderInv'
  <2>1. ASSUME NEW r \in Row', NEW s \in Row', r < s, Earlier(deliveries', r, s), deliveries'[s].attempts > 0
        PROVE  deliveries'[r].status \notin Undelivered
    <3>1. s # new
      BY <1>2, <1>5, <2>1
    <3>2. r \in Row /\ s \in Row
      BY <1>2, <1>3, <2>1, <3>1 DEF Row
    <3>3. Earlier(deliveries, r, s)
      BY <1>2, <2>1, <3>2 DEF Earlier
    <3>4. QED BY <1>2, <2>1, <3>2, <3>3 DEF SendInv, OrderInv
  <2>2. ASSUME NEW i \in 1..Len(posted), NEW k \in 1..Len(posted), i < k, posted[k] < posted[i],
               Earlier(deliveries', posted[k], posted[i])
        PROVE  deliveries'[posted[k]].recalled
    <3>1. Earlier(deliveries, posted[k], posted[i])
      BY <1>2, <1>4, <2>2 DEF Earlier
    <3>2. QED BY <1>2, <1>4, <2>2, <3>1 DEF SendInv, OrderInv
  <2>3. QED BY <2>1, <2>2 DEF OrderInv
<1>11. QED BY <1>6, <1>8, <1>9, <1>10 DEF SendInv, PostsInv

-----------------------------------------------------------------------------
(* How deliveries change *)

Claimable(row) == row.token = None <=> row.status # "sending"

\* What every change of a delivery leaves alone: it never comes back to be claimed.
Follows(a, b) ==
  /\ b.occurred = a.occurred
  /\ a.recalled => b.recalled
  /\ b.status \in Undelivered => a.status \in Undelivered

\* The claim, if a dispatcher has one, and what was sent stay.
Waits(a, b) ==
  /\ Follows(a, b) /\ b.attempts = a.attempts /\ Claimable(b)
  /\ b.token # a.token => a.token \notin Dispatcher /\ b.token \notin Dispatcher
  /\ b.status # a.status => a.status # "sent"
  /\ b.status = "sending" => a.status = "sending"

\* A delivery that is under way is taken out.
Recalled(a, b) ==
  /\ Follows(a, b) /\ b.attempts = a.attempts
  /\ a.status = "sending" /\ b.status = "suppressed" /\ b.token = None /\ b.recalled

LEMMA FunIsSeq ==
  ASSUME NEW n \in Nat, NEW f \in [1..n -> DeliveryType]
  PROVE  f \in Seq(DeliveryType) /\ Len(f) = n /\ DOMAIN f = 1..n
BY SeqDef, LenProperties

LEMMA SuppressedRow ==
  ASSUME NEW a \in DeliveryType, NEW b, Claimable(a),
         b = [a EXCEPT !.status = "suppressed", !.token = None, !.recalled = @ \/ a.status = "sending"]
  PROVE  /\ b \in DeliveryType /\ Claimable(b)
         /\ b.occurred = a.occurred /\ b.attempts = a.attempts /\ b.status = "suppressed"
         /\ b.token = None /\ Follows(a, b)
         /\ a.status = "sending" => Recalled(a, b)
         /\ a.status \in {"pending", "retry"} => Waits(a, b)
<1>1. /\ b.occurred = a.occurred /\ b.attempts = a.attempts /\ b.status = "suppressed" /\ b.token = None
      /\ b.recalled = (a.recalled \/ a.status = "sending")
  BY DEF DeliveryType
<1>2. b \in DeliveryType
  BY DEF DeliveryType
<1>3. Claimable(b) /\ Follows(a, b)
  BY <1>1 DEF Claimable, Follows, Undelivered
<1>4. a.status = "sending" => Recalled(a, b)
  BY <1>1, <1>3 DEF Recalled
<1>5. a.status \in {"pending", "retry"} => Waits(a, b)
  BY <1>1, <1>3 DEF Waits, Claimable
<1>6. QED BY <1>1, <1>2, <1>3, <1>4, <1>5

LEMMA SuppressRows ==
  ASSUME NEW n \in Nat, NEW rs \in [1..n -> DeliveryType], NEW S, \A r \in 1..n : Claimable(rs[r])
  PROVE  /\ Suppress(rs, S) \in [1..n -> DeliveryType]
         /\ \A r \in 1..n :
              /\ r \notin S => Suppress(rs, S)[r] = rs[r]
              /\ r \in S => /\ Suppress(rs, S)[r].token = None /\ Suppress(rs, S)[r].status = "suppressed"
                            /\ Suppress(rs, S)[r].attempts = rs[r].attempts
                            /\ Follows(rs[r], Suppress(rs, S)[r])
              /\ r \in S /\ rs[r].status = "sending" => Recalled(rs[r], Suppress(rs, S)[r])
              /\ r \in S /\ rs[r].status \in {"pending", "retry"} => Waits(rs[r], Suppress(rs, S)[r])
<1> DEFINE g(r) == IF r \in S
                   THEN [rs[r] EXCEPT !.status = "suppressed", !.token = None,
                                      !.recalled = @ \/ rs[r].status = "sending"]
                   ELSE rs[r]
<1>1. Suppress(rs, S) = [r \in 1..n |-> g(r)]
  BY DEF Suppress
<1>2. ASSUME NEW r \in 1..n
      PROVE  /\ g(r) \in DeliveryType
             /\ r \notin S => g(r) = rs[r]
             /\ r \in S => /\ g(r).token = None /\ g(r).status = "suppressed"
                           /\ g(r).attempts = rs[r].attempts /\ Follows(rs[r], g(r))
             /\ r \in S /\ rs[r].status = "sending" => Recalled(rs[r], g(r))
             /\ r \in S /\ rs[r].status \in {"pending", "retry"} => Waits(rs[r], g(r))
  <2>1. CASE r \in S
    <3>1. /\ rs[r] \in DeliveryType /\ Claimable(rs[r])
          /\ g(r) = [rs[r] EXCEPT !.status = "suppressed", !.token = None,
                                  !.recalled = @ \/ rs[r].status = "sending"]
      BY <2>1
    <3> HIDE DEF g
    <3>2. QED BY <2>1, <3>1, SuppressedRow
  <2>2. CASE r \notin S
    BY <2>2
  <2>3. QED BY <2>1, <2>2
<1> HIDE DEF g
<1>3. \A r \in 1..n : Suppress(rs, S)[r] = g(r)
  BY <1>1
<1>4. QED BY <1>1, <1>2, <1>3

\* Deliveries change without the dispatchers.
LEMMA Touched ==
  ASSUME SendInv, deliveries' \in Seq(DeliveryType), Len(deliveries') = Len(deliveries),
         disp' = disp, posted' = posted, disturbed' \in [1..MaxEvents -> Nat],
         \A r \in Row : \/ Waits(deliveries[r], deliveries'[r]) /\ disturbed'[r] = disturbed[r]
                        \/ Recalled(deliveries[r], deliveries'[r]) /\ disturbed'[r] = disturbed[r] + 1
  PROVE  SendInv'
<1>1. Row' = Row
  BY DEF Row
<1>2. SendTypes'
  BY <1>1 DEF SendInv, SendTypes
<1>3. ASSUME NEW d \in Dispatcher, disp[d].pc # "idle"
      PROVE  /\ disp[d].row \in Row
             /\ Waits(deliveries[disp[d].row], deliveries'[disp[d].row]) => (Mine(d)' <=> Mine(d))
             /\ Recalled(deliveries[disp[d].row], deliveries'[disp[d].row]) => ~Mine(d)'
  BY <1>3 DEF SendInv, ClaimsInv, Mine, Waits, Recalled
<1>4. ClaimsInv'
  <2>1. ASSUME NEW r \in Row
        PROVE  /\ deliveries'[r].token = None <=> deliveries'[r].status # "sending"
               /\ deliveries'[r].status = "sending" \/ Accepted(r)' => deliveries'[r].attempts > 0
               /\ deliveries'[r].token \in Dispatcher =>
                    disp'[deliveries'[r].token].pc # "idle" /\ disp'[deliveries'[r].token].row = r
    <3>1. CASE Waits(deliveries[r], deliveries'[r])
      BY <3>1 DEF SendInv, ClaimsInv, Waits, Claimable, Accepted
    <3>2. CASE Recalled(deliveries[r], deliveries'[r])
      BY <3>2 DEF SendInv, ClaimsInv, Recalled, Accepted
    <3>3. QED BY <3>1, <3>2
  <2>2. ASSUME NEW d \in Dispatcher, disp'[d].pc # "idle"
        PROVE  /\ disp'[d].row \in Row' /\ deliveries'[disp'[d].row].attempts > 0
               /\ disp'[d].pc = "post" => Mine(d)' \/ deliveries'[disp'[d].row].recalled
    <3>1. CASE Waits(deliveries[disp[d].row], deliveries'[disp[d].row])
      BY <1>1, <1>3, <2>2, <3>1 DEF SendInv, ClaimsInv, Waits, Follows
    <3>2. CASE Recalled(deliveries[disp[d].row], deliveries'[disp[d].row])
      BY <1>1, <1>3, <2>2, <3>2 DEF SendInv, ClaimsInv, Recalled
    <3>3. QED BY <1>3, <2>2, <3>1, <3>2
  <2>3. QED BY <1>1, <2>1, <2>2 DEF ClaimsInv
<1>5. ASSUME NEW r \in Row
      PROVE  Balanced(r)'
  <2>1. Posts(r)' = Posts(r) + 0 /\ Strays(r)' \in SUBSET Dispatcher
    <3>1. Posts(r)' = Posts(r) /\ Posts(r) = PostsIn(posted, r) /\ posted \in Seq(Row)
      BY DEF Posts, PostsIn, SendInv, SendTypes
    <3>2. Posts(r) \in Nat
      BY <3>1, PostsCount
    <3>3. QED BY <3>1, <3>2 DEF Strays
  <2>2. disturbed[r] \in Nat
    BY RowFacts
  <2>3. CASE Waits(deliveries[r], deliveries'[r]) /\ disturbed'[r] = disturbed[r]
    <3>1. Strays(r)' = Strays(r)
      BY <1>3, <2>3 DEF Strays
    <3>2. Made(r) => Made(r)'
      BY <1>3, <2>3 DEF Made, Waits
    <3>3. Bit(None \in Strays(r)') = Bit(None \in Strays(r)) /\ Bit(None \in Strays(r)) \in {0, 1}
      BY <3>1 DEF Bit
    <3>4. Bit(Made(r)) <= Bit(Made(r)') /\ Bit(Made(r)) \in {0, 1} /\ Bit(Made(r)') \in {0, 1}
      BY <3>2 DEF Bit
    <3>5. 0 + Bit(None \in Strays(r)') + Bit(Made(r)) <= 0 + Bit(Made(r)') + Bit(None \in Strays(r))
      BY <3>3, <3>4
    <3>6. disturbed'[r] = disturbed[r] + 0
      BY <2>2, <2>3
    <3>7. QED BY <2>1, <3>1, <3>5, <3>6, Balance
  <2>4. CASE Recalled(deliveries[r], deliveries'[r]) /\ disturbed'[r] = disturbed[r] + 1
    <3> DEFINE d == deliveries[r].token
    <3>1. Strays(r)' \ {d} = Strays(r) \ {d}
      BY <1>3, <2>4 DEF Strays, Mine
    <3>2. d \in Strays(r)' => ~Made(r)
      BY <2>4 DEF Strays, Made, Mine, Recalled
    <3>3. /\ Bit(d \in Strays(r)') + Bit(Made(r)) <= 1
          /\ Bit(d \in Strays(r)') \in {0, 1} /\ Bit(Made(r)) \in {0, 1}
          /\ Bit(d \in Strays(r)) \in {0, 1} /\ Bit(Made(r)') \in {0, 1}
      BY <3>2 DEF Bit
    <3> HIDE DEF d
    <3>4. 0 + Bit(d \in Strays(r)') + Bit(Made(r)) <= 1 + Bit(Made(r)') + Bit(d \in Strays(r))
      BY <3>3
    <3>5. QED BY <2>1, <2>4, <3>1, <3>4, Balance
  <2>5. QED BY <2>3, <2>4
<1>6. \A r \in Row : Follows(deliveries[r], deliveries'[r]) /\ deliveries'[r].attempts = deliveries[r].attempts
  BY DEF Waits, Recalled
<1>7. OrderInv'
  <2>1. \A r, s \in Row : Earlier(deliveries', r, s) => Earlier(deliveries, r, s)
    BY <1>6 DEF Earlier, Follows
  <2>2. \A i \in 1..Len(posted) : posted[i] \in Row
    BY DEF SendInv, SendTypes
  <2>3. ASSUME NEW r \in Row, NEW s \in Row, r < s, Earlier(deliveries', r, s), deliveries'[s].attempts > 0
        PROVE  deliveries'[r].status \notin Undelivered
    BY <1>6, <2>1, <2>3 DEF SendInv, OrderInv, Follows
  <2>4. ASSUME NEW i \in 1..Len(posted), NEW k \in 1..Len(posted), i < k, posted[k] < posted[i],
               Earlier(deliveries', posted[k], posted[i])
        PROVE  deliveries'[posted[k]].recalled
    BY <1>6, <2>1, <2>2, <2>4 DEF SendInv, OrderInv, Follows
  <2>5. QED BY <1>1, <2>3, <2>4 DEF OrderInv
<1>8. QED BY <1>1, <1>2, <1>4, <1>5, <1>7 DEF SendInv, PostsInv

-----------------------------------------------------------------------------
(* What a dispatcher does *)

\* A dispatcher that is busy moves on, and at most ends its own claim.
DispStep(d) ==
  /\ disp[d].pc # "idle"
  /\ disp' \in [Dispatcher -> DispType] /\ \A e \in Dispatcher \ {d} : disp'[e] = disp[e]
  /\ disp'[d].pc # "idle" => disp'[d].row = disp[d].row
  /\ disp'[d].pc = "post" => Mine(d)
  /\ deliveries' \in Seq(DeliveryType) /\ Len(deliveries') = Len(deliveries)
  /\ \A r \in Row :
       /\ Claimable(deliveries'[r]) /\ Follows(deliveries[r], deliveries'[r])
       /\ deliveries'[r].attempts = deliveries[r].attempts
       /\ \/ deliveries'[r] = deliveries[r] /\ (disp'[d].pc = "idle" => deliveries[r].token # d)
          \/ /\ r = disp[d].row /\ Mine(d) /\ disp'[d].pc = "idle"
             /\ deliveries'[r].token \notin Dispatcher /\ deliveries[r].status = "sending"
  /\ disturbed' \in [1..MaxEvents -> Nat]
  /\ \/ posted' = posted
     \/ disp[d].pc = "post" /\ posted' = Append(posted, disp[d].row) /\ deliveries' = deliveries

LEMMA OthersStay ==
  ASSUME SendInv, NEW d \in Dispatcher, DispStep(d)
  PROVE  /\ \A e \in Dispatcher \ {d} : disp[e].pc # "idle" => (Mine(e)' <=> Mine(e))
         /\ \A r \in Row : Strays(r)' \ {d} = Strays(r) \ {d} /\ Strays(r)' \in SUBSET Dispatcher
<1>1. ASSUME NEW e \in Dispatcher \ {d}, disp[e].pc # "idle"
      PROVE  Mine(e)' <=> Mine(e)
  <2>1. disp[e].row \in Row /\ disp'[e] = disp[e]
    BY <1>1 DEF SendInv, ClaimsInv, DispStep
  <2>2. CASE deliveries'[disp[e].row] = deliveries[disp[e].row]
    BY <2>1, <2>2 DEF Mine
  <2>3. CASE disp[e].row = disp[d].row /\ Mine(d) /\ deliveries'[disp[e].row].token \notin Dispatcher
    BY <2>1, <2>3 DEF Mine
  <2>4. QED BY <2>1, <2>2, <2>3 DEF DispStep
<1>2. ASSUME NEW r \in Row
      PROVE  Strays(r)' \ {d} = Strays(r) \ {d}
  BY <1>1 DEF Strays, DispStep
<1>3. QED BY <1>1, <1>2 DEF Strays

LEMMA DispKeeps ==
  ASSUME SendInv, NEW d \in Dispatcher, DispStep(d)
  PROVE  SendTypes' /\ ClaimsInv' /\ OrderInv'
<1>1. Row' = Row /\ disp[d].row \in Row
  BY DEF Row, DispStep, SendInv, ClaimsInv
<1>2. posted \in Seq(Row) /\ Len(posted) \in Nat /\ \A i \in 1..Len(posted) : posted[i] \in Row
  BY LenProperties DEF SendInv, SendTypes
<1>3. \/ posted' = posted
      \/ /\ disp[d].pc = "post" /\ deliveries' = deliveries /\ posted' \in Seq(Row)
         /\ Len(posted') = Len(posted) + 1 /\ posted'[Len(posted) + 1] = disp[d].row
         /\ \A i \in 1..Len(posted) : posted'[i] = posted[i]
  <2>1. CASE posted' = posted
    BY <2>1
  <2>2. CASE disp[d].pc = "post" /\ posted' = Append(posted, disp[d].row) /\ deliveries' = deliveries
    <3>1. /\ posted' \in Seq(Row) /\ Len(posted') = Len(posted) + 1 /\ posted'[Len(posted) + 1] = disp[d].row
          /\ \A i \in 1..Len(posted) : posted'[i] = posted[i]
      BY <1>1, <1>2, <2>2, AppendProperties
    <3>2. QED BY <2>2, <3>1
  <2>3. QED BY <2>1, <2>2 DEF DispStep
<1>4. SendTypes'
  BY <1>1, <1>2, <1>3 DEF SendInv, SendTypes, DispStep
<1>5. \A r \in Row : Accepted(r)' => Accepted(r) \/ (r = disp[d].row /\ disp[d].pc = "post")
  BY <1>2, <1>3 DEF Accepted
<1>6. ClaimsInv'
  <2>1. ASSUME NEW r \in Row
        PROVE  /\ deliveries'[r].token = None <=> deliveries'[r].status # "sending"
               /\ deliveries'[r].status = "sending" \/ Accepted(r)' => deliveries'[r].attempts > 0
               /\ deliveries'[r].token \in Dispatcher =>
                    disp'[deliveries'[r].token].pc # "idle" /\ disp'[deliveries'[r].token].row = r
    <3>1. deliveries'[r].token = None <=> deliveries'[r].status # "sending"
      BY DEF DispStep, Claimable
    <3>2. deliveries'[r].attempts = deliveries[r].attempts
      BY DEF DispStep
    <3>3. deliveries[r].status = "sending" \/ Accepted(r) \/ (r = disp[d].row) => deliveries[r].attempts > 0
      BY DEF SendInv, ClaimsInv, DispStep
    <3>4. deliveries'[r].status = "sending" => deliveries[r].status = "sending"
      BY DEF DispStep
    <3>5. deliveries'[r].token \in Dispatcher => deliveries'[r] = deliveries[r]
      BY DEF DispStep
    <3>6. ASSUME deliveries'[r].token \in Dispatcher
          PROVE  disp'[deliveries'[r].token].pc # "idle" /\ disp'[deliveries'[r].token].row = r
      <4>1. deliveries[r].token \in Dispatcher /\ deliveries'[r].token = deliveries[r].token
        BY <3>5, <3>6
      <4>2. disp[deliveries[r].token].pc # "idle" /\ disp[deliveries[r].token].row = r
        BY <4>1 DEF SendInv, ClaimsInv
      <4>3. CASE deliveries[r].token = d
        BY <3>5, <3>6, <4>1, <4>2, <4>3 DEF DispStep
      <4>4. CASE deliveries[r].token # d
        BY <4>1, <4>2, <4>4 DEF DispStep
      <4>5. QED BY <4>3, <4>4
    <3>7. QED BY <1>5, <3>1, <3>2, <3>3, <3>4, <3>6
  <2>2. ASSUME NEW e \in Dispatcher, disp'[e].pc # "idle"
        PROVE  /\ disp'[e].row \in Row /\ deliveries'[disp'[e].row].attempts > 0
               /\ disp'[e].pc = "post" => Mine(e)' \/ deliveries'[disp'[e].row].recalled
    <3>1. CASE e = d
      <4>1. disp'[d].row = disp[d].row /\ \A r \in Row : deliveries'[r] = deliveries[r]
        BY <2>2, <3>1 DEF DispStep
      <4>2. deliveries[disp[d].row].attempts > 0
        BY DEF SendInv, ClaimsInv, DispStep
      <4>3. disp'[d].pc = "post" => Mine(d)'
        BY <1>1, <4>1 DEF DispStep, Mine
      <4>4. QED BY <1>1, <3>1, <4>1, <4>2, <4>3
    <3>2. CASE e # d
      <4>1. disp'[e] = disp[e] /\ disp[e].pc # "idle"
        BY <2>2, <3>2 DEF DispStep
      <4>2. disp[e].row \in Row /\ deliveries[disp[e].row].attempts > 0 /\ (Mine(e)' <=> Mine(e))
        BY <3>2, <4>1, OthersStay DEF SendInv, ClaimsInv
      <4>3. disp[e].pc = "post" => Mine(e) \/ deliveries[disp[e].row].recalled
        BY <4>1 DEF SendInv, ClaimsInv
      <4>4. QED BY <4>1, <4>2, <4>3 DEF DispStep, Follows
    <3>3. QED BY <3>1, <3>2
  <2>3. QED BY <1>1, <2>1, <2>2 DEF ClaimsInv
<1>7. OrderInv'
  <2>1. \A r \in Row : /\ Follows(deliveries[r], deliveries'[r])
                       /\ deliveries'[r].attempts = deliveries[r].attempts
    BY DEF DispStep
  <2>2. \A r, s \in Row : Earlier(deliveries', r, s) => Earlier(deliveries, r, s)
    BY <2>1 DEF Earlier, Follows
  <2>3. ASSUME NEW r \in Row, NEW s \in Row, r < s, Earlier(deliveries', r, s), deliveries'[s].attempts > 0
        PROVE  deliveries'[r].status \notin Undelivered
    BY <2>1, <2>2, <2>3 DEF SendInv, OrderInv, Follows
  <2>4. ASSUME NEW i \in 1..Len(posted), NEW k \in 1..Len(posted), i < k, posted[k] < posted[i],
               Earlier(deliveries', posted[k], posted[i])
        PROVE  deliveries'[posted[k]].recalled
    BY <1>2, <2>1, <2>2, <2>4 DEF SendInv, OrderInv, Follows
  <2>5. ASSUME disp[d].pc = "post", NEW i \in 1..Len(posted), disp[d].row < posted[i],
               Earlier(deliveries', disp[d].row, posted[i])
        PROVE  deliveries'[disp[d].row].recalled
    <3> DEFINE r == disp[d].row  s == posted[i]
    <3>1. r \in Row /\ s \in Row /\ Earlier(deliveries, r, s)
      BY <1>1, <1>2, <2>2, <2>5
    <3>2. deliveries[s].attempts > 0
      BY <3>1 DEF SendInv, ClaimsInv, Accepted
    <3>3. deliveries[r].status \notin Undelivered
      BY <2>5, <3>1, <3>2 DEF SendInv, OrderInv
    <3>4. ~Mine(d)
      <4>1. Mine(d) => deliveries[r].status = "sending"
        BY <3>1 DEF SendInv, ClaimsInv, Mine
      <4>2. QED BY <3>3, <4>1 DEF Undelivered
    <3>5. deliveries[r].recalled
      BY <2>5, <3>4 DEF SendInv, ClaimsInv
    <3>6. QED BY <2>1, <3>1, <3>5 DEF Follows
  <2>6. ASSUME NEW i \in 1..Len(posted'), NEW k \in 1..Len(posted'), i < k, posted'[k] < posted'[i],
               Earlier(deliveries', posted'[k], posted'[i])
        PROVE  deliveries'[posted'[k]].recalled
    <3>1. CASE posted' = posted
      BY <2>4, <2>6, <3>1
    <3>2. CASE posted' # posted
      <4>1. i \in 1..Len(posted) /\ posted'[i] = posted[i]
        BY <1>2, <1>3, <2>6, <3>2
      <4>2. CASE k \in 1..Len(posted)
        BY <1>3, <2>4, <2>6, <3>2, <4>1, <4>2
      <4>3. CASE k = Len(posted) + 1
        BY <1>3, <2>5, <2>6, <3>2, <4>1, <4>3
      <4>4. QED BY <1>2, <1>3, <3>2, <4>2, <4>3
    <3>3. QED BY <3>1, <3>2
  <2>7. QED BY <1>1, <2>3, <2>6 DEF OrderInv
<1>8. QED BY <1>4, <1>6, <1>7

LEMMA GateStep ==
  ASSUME SendInv, NEW d \in Dispatcher, Gate(d) \/ GateFails(d)
  PROVE  SendInv'
<1>1. /\ disp[d].pc = "gate" /\ UNCHANGED <<deliveries, posted, disturbed>>
      /\ \/ disp' = [disp EXCEPT ![d].pc = "post"] /\ Mine(d)
         \/ disp' = [disp EXCEPT ![d].pc = "suppress"]
  BY DEF Gate, GateFails, MayPost
<1>2. disp \in [Dispatcher -> DispType]
  BY DEF SendInv, SendTypes
<1>3. /\ disp' \in [Dispatcher -> DispType] /\ \A e \in Dispatcher \ {d} : disp'[e] = disp[e]
      /\ disp'[d].row = disp[d].row /\ disp'[d].pc \in {"post", "suppress"}
      /\ disp'[d].pc = "post" => Mine(d)
  <2>1. CASE disp' = [disp EXCEPT ![d].pc = "post"] /\ Mine(d)
    BY <1>2, <2>1 DEF DispType
  <2>2. CASE disp' = [disp EXCEPT ![d].pc = "suppress"]
    BY <1>2, <2>2 DEF DispType
  <2>3. QED BY <1>1, <2>1, <2>2
<1>4. DispStep(d)
  <2>1. \A r \in Row : Claimable(deliveries[r]) /\ Follows(deliveries[r], deliveries[r])
    BY DEF SendInv, ClaimsInv, Claimable, Follows
  <2>2. deliveries \in Seq(DeliveryType) /\ disturbed \in [1..MaxEvents -> Nat]
    BY DEF SendInv, SendTypes
  <2>3. QED BY <1>1, <1>3, <2>1, <2>2 DEF DispStep
<1>5. ASSUME NEW r \in Row
      PROVE  Balanced(r)'
  <2>1. Strays(r)' = Strays(r)
    <3>1. d \notin Strays(r) /\ d \notin Strays(r)'
      BY <1>1, <1>3 DEF Strays, Mine
    <3>2. Strays(r)' \ {d} = Strays(r) \ {d}
      BY <1>4, OthersStay
    <3>3. QED BY <3>1, <3>2
  <2>2. Made(r)' <=> Made(r)
    <3>1. \A e \in Dispatcher \ {d} : disp[e].pc # "idle" => (Mine(e)' <=> Mine(e))
      BY <1>4, OthersStay
    <3>2. QED BY <1>1, <1>3, <3>1 DEF Made
  <2>3. Posts(r)' = Posts(r) /\ disturbed' = disturbed
    BY <1>1 DEF Posts
  <2>4. QED BY <2>1, <2>2, <2>3 DEF SendInv, PostsInv, Balanced
<1>6. Row' = Row
  BY <1>1 DEF Row
<1>7. QED BY <1>4, <1>5, <1>6, DispKeeps DEF SendInv, PostsInv

LEMMA PostStep ==
  ASSUME SendInv, NEW d \in Dispatcher, NEW late \in BOOLEAN, Post(d, late)
  PROVE  SendInv'
<1> DEFINE s == disp[d].row
<1>1. PICK accepted \in BOOLEAN :
        /\ late => accepted
        /\ posted' = IF accepted THEN Append(posted, s) ELSE posted
        /\ disp' = [disp EXCEPT ![d].pc = "complete", ![d].ok = accepted /\ ~late]
  BY DEF Post
<1>2. /\ disp[d].pc = "post" /\ deliveries' = deliveries
      /\ IF late THEN Disturb({s}) ELSE disturbed' = disturbed
  BY DEF Post
<1>3. disp \in [Dispatcher -> DispType] /\ disturbed \in [1..MaxEvents -> Nat]
  BY DEF SendInv, SendTypes
<1>4. /\ disp' \in [Dispatcher -> DispType] /\ \A e \in Dispatcher \ {d} : disp'[e] = disp[e]
      /\ disp'[d].row = s /\ disp'[d].pc = "complete" /\ disp'[d].ok = (accepted /\ ~late)
  BY <1>1, <1>3 DEF DispType
<1>5. s \in Row /\ Row \subseteq 1..MaxEvents /\ \A r \in Row : disturbed[r] \in Nat
  BY <1>2, RowFacts DEF SendInv, ClaimsInv
<1>6. /\ disturbed' \in [1..MaxEvents -> Nat]
      /\ \A r \in Row : disturbed'[r] = disturbed[r] + Bit(late /\ r = s)
  <2>1. CASE late
    <3>1. disturbed' = [r \in 1..MaxEvents |-> IF r \in {s} THEN disturbed[r] + 1 ELSE disturbed[r]]
      BY <1>2, <2>1 DEF Disturb
    <3>2. QED BY <1>3, <1>5, <2>1, <3>1 DEF Bit
  <2>2. CASE ~late
    BY <1>2, <1>3, <1>5, <2>2 DEF Bit
  <2>3. QED BY <2>1, <2>2
<1>7. DispStep(d)
  <2>1. \A r \in Row : Claimable(deliveries[r]) /\ Follows(deliveries[r], deliveries[r])
    BY DEF SendInv, ClaimsInv, Claimable, Follows
  <2>2. deliveries \in Seq(DeliveryType)
    BY DEF SendInv, SendTypes
  <2>3. posted' = posted \/ posted' = Append(posted, s)
    BY <1>1
  <2>4. QED BY <1>2, <1>4, <1>6, <2>1, <2>2, <2>3 DEF DispStep
<1>8. \A e \in Dispatcher : disp[e].pc # "idle" => (Mine(e)' <=> Mine(e))
  <2>1. Mine(d)' <=> Mine(d)
    BY <1>2, <1>4 DEF Mine
  <2>2. QED BY <1>7, <2>1, OthersStay
<1>9. ASSUME NEW r \in Row
      PROVE  Balanced(r)'
  <2>1. Strays(r)' \ {d} = Strays(r) \ {d} /\ Strays(r)' \in SUBSET Dispatcher
    BY <1>7, OthersStay
  <2>2. d \notin Strays(r)' /\ (d \in Strays(r) <=> r = s /\ ~Mine(d))
    BY <1>2, <1>4 DEF Strays
  <2>3. Made(r) => Made(r)'
    BY <1>2, <1>4, <1>8 DEF Made
  <2>4. r = s /\ Mine(d) => ~Made(r)
    <3>1. ASSUME r = s, Mine(d)
          PROVE  deliveries[r].token = d /\ deliveries[r].status = "sending"
      BY <1>5, <3>1 DEF Mine, SendInv, ClaimsInv
    <3>2. QED BY <1>2, <3>1 DEF Made, Mine
  <2>5. r = s /\ Mine(d) /\ accepted /\ ~late => Made(r)'
    BY <1>4, <1>8, <1>2 DEF Made
  <2>6. PostsIn(posted, r) \in Nat /\ PostsIn(Append(posted, s), r) = PostsIn(posted, r) + (IF s = r THEN 1 ELSE 0)
    <3>1. posted \in Seq(Row)
      BY DEF SendInv, SendTypes
    <3>2. QED BY <1>5, <3>1, PostsCount
  <2>7. Posts(r) = PostsIn(posted, r) /\ Posts(r)' = PostsIn(posted', r)
    BY DEF Posts, PostsIn
  <2>8. Posts(r)' = Posts(r) + Bit(accepted /\ r = s)
    <3>1. CASE accepted
      BY <1>1, <2>6, <2>7, <3>1 DEF Bit
    <3>2. CASE ~accepted
      BY <1>1, <2>6, <2>7, <3>2 DEF Bit
    <3>3. QED BY <3>1, <3>2
  <2> DEFINE n == Bit(accepted /\ r = s)  m == Bit(late /\ r = s)
             b1 == Bit(d \in Strays(r))  b2 == Bit(d \in Strays(r)')  m1 == Bit(Made(r))  m2 == Bit(Made(r)')
  <2>9. n + b2 + m1 <= m + m2 + b1
    <3>1. CASE r # s
      <4>1. n = 0 /\ m = 0 /\ b2 = 0 /\ b1 = 0
        BY <2>2, <3>1 DEF Bit
      <4>2. m1 <= m2 /\ m1 \in {0, 1} /\ m2 \in {0, 1}
        BY <2>3 DEF Bit
      <4> HIDE DEF n, m, b1, b2, m1, m2
      <4>3. QED BY <4>1, <4>2
    <3>2. CASE r = s
      <4>1. b2 = 0 /\ (Mine(d) => m1 = 0) /\ (~Mine(d) => b1 = 1)
        BY <2>2, <2>4, <3>2 DEF Bit
      <4>2. n \in {0, 1} /\ m \in {0, 1} /\ b1 \in {0, 1} /\ m2 \in {0, 1} /\ m1 \in {0, 1} /\ m1 <= m2
        BY <2>3 DEF Bit
      <4>3. n <= m \/ ~Mine(d) \/ m2 = 1
        BY <2>5, <3>2 DEF Bit
      <4> HIDE DEF n, m, b1, b2, m1, m2
      <4>4. QED BY <4>1, <4>2, <4>3
    <3>3. QED BY <3>1, <3>2
  <2>10. n \in {0, 1} /\ m \in {0, 1}
    BY DEF Bit
  <2>11. Posts(r)' = Posts(r) + n /\ disturbed'[r] = disturbed[r] + m
    BY <1>6, <2>8
  <2> HIDE DEF n, m
  <2>12. QED BY <2>1, <2>9, <2>10, <2>11, Balance
<1>10. Row' = Row
  BY <1>2 DEF Row
<1>11. QED BY <1>7, <1>9, <1>10, DispKeeps DEF SendInv, PostsInv

\* A dispatcher that is done with its delivery, or lost.
LEMMA Ends ==
  ASSUME SendInv, NEW d \in Dispatcher, DispStep(d), disp'[d].pc = "idle", posted' = posted,
         NEW lost \in {0, 1},
         \A r \in Row : disturbed'[r] = disturbed[r] + (IF r = disp[d].row THEN lost ELSE 0),
         lost = 0 => \/ disp[d].pc = "suppress"
                     \/ /\ disp[d].pc = "complete"
                        /\ disp[d].ok /\ Mine(d) => deliveries'[disp[d].row].status = "sent"
  PROVE  SendInv'
<1> DEFINE s == disp[d].row
<1>1. \A e \in Dispatcher \ {d} : disp[e].pc # "idle" => (Mine(e)' <=> Mine(e))
  BY OthersStay
<1>2. ASSUME NEW r \in Row
      PROVE  Balanced(r)'
  <2>1. Strays(r)' \ {d} = Strays(r) \ {d} /\ Strays(r)' \in SUBSET Dispatcher
    BY OthersStay
  <2>2. d \notin Strays(r)'
    BY DEF Strays
  <2>3. Posts(r)' = Posts(r) + 0
    <3>1. Posts(r)' = Posts(r) /\ Posts(r) = PostsIn(posted, r) /\ posted \in Seq(Row)
      BY DEF Posts, PostsIn, SendInv, SendTypes
    <3>2. QED BY <3>1, PostsCount
  <2>4. deliveries[r].status = "sent" => deliveries'[r].status = "sent"
    <3>1. CASE deliveries'[r] = deliveries[r]
      BY <3>1
    <3>2. CASE deliveries[r].status = "sending"
      BY <3>2
    <3>3. QED BY <3>1, <3>2 DEF DispStep
  <2>5. ASSUME r # s \/ lost = 0
        PROVE  Made(r) => Made(r)'
    <3>1. CASE deliveries[r].status = "sent"
      BY <2>4, <3>1 DEF Made
    <3>2. ASSUME NEW e \in Dispatcher \ {d}, disp[e].pc = "complete", disp[e].ok, disp[e].row = r, Mine(e)
          PROVE  Made(r)'
      BY <1>1, <3>2 DEF Made, DispStep
    <3>3. CASE disp[d].pc = "complete" /\ disp[d].ok /\ disp[d].row = r /\ Mine(d)
      BY <2>5, <3>3 DEF Made
    <3>4. QED BY <3>1, <3>2, <3>3 DEF Made
  <2> DEFINE m == IF r = s THEN lost ELSE 0
             b1 == Bit(d \in Strays(r))  b2 == Bit(d \in Strays(r)')  m1 == Bit(Made(r))  m2 == Bit(Made(r)')
  <2>6. m \in {0, 1} /\ disturbed'[r] = disturbed[r] + m /\ (m = 0 => r # s \/ lost = 0)
    OBVIOUS
  <2>7. 0 + b2 + m1 <= m + m2 + b1
    <3>1. b2 = 0 /\ b1 \in {0, 1} /\ m1 \in {0, 1} /\ m2 \in {0, 1} /\ (m = 0 => m1 <= m2)
      BY <2>2, <2>5, <2>6 DEF Bit
    <3> HIDE DEF m, b1, b2, m1, m2
    <3>2. QED BY <2>6, <3>1
  <2> HIDE DEF m
  <2>8. QED BY <2>1, <2>3, <2>6, <2>7, Balance
<1>3. Row' = Row
  BY DEF Row, DispStep
<1>4. QED BY <1>2, <1>3, DispKeeps DEF SendInv, PostsInv

\* What a dispatcher may make of its delivery when it is done.
LEMMA EndsRow ==
  ASSUME SendInv, NEW d \in Dispatcher, disp[d].pc # "idle", NEW b \in DeliveryType,
         Mine(d) => /\ Claimable(b) /\ Follows(deliveries[disp[d].row], b) /\ b.token \notin Dispatcher
                    /\ b.attempts = deliveries[disp[d].row].attempts,
         deliveries' = IF Mine(d) THEN [deliveries EXCEPT ![disp[d].row] = b] ELSE deliveries,
         disp' = [disp EXCEPT ![d] = Idle], posted' = posted, disturbed' \in [1..MaxEvents -> Nat]
  PROVE  /\ DispStep(d) /\ disp'[d].pc = "idle"
         /\ Mine(d) => deliveries'[disp[d].row] = b
<1> DEFINE s == disp[d].row
<1>1. s \in Row /\ disp \in [Dispatcher -> DispType] /\ Len(deliveries) \in Nat
  BY RowFacts DEF SendInv, SendTypes, ClaimsInv
<1>2. /\ disp' \in [Dispatcher -> DispType] /\ \A e \in Dispatcher \ {d} : disp'[e] = disp[e]
      /\ disp'[d].pc = "idle"
  BY <1>1 DEF DispType, Idle
<1>3. deliveries \in [1..Len(deliveries) -> DeliveryType] /\ deliveries \in Seq(DeliveryType)
  BY LenProperties DEF SendInv, SendTypes
<1>4. /\ deliveries' \in [1..Len(deliveries) -> DeliveryType]
      /\ \A r \in Row : deliveries'[r] = IF Mine(d) /\ r = s THEN b ELSE deliveries[r]
  BY <1>1, <1>3 DEF Row
<1>5. deliveries' \in Seq(DeliveryType) /\ Len(deliveries') = Len(deliveries)
  <2>1. Len(deliveries) \in Nat /\ deliveries' \in [1..Len(deliveries) -> DeliveryType]
    BY <1>1, <1>4
  <2>2. QED BY <2>1, FunIsSeq
<1>6. ASSUME NEW r \in Row
      PROVE  /\ Claimable(deliveries[r]) /\ Follows(deliveries[r], deliveries[r])
             /\ deliveries[r].token = d => r = s /\ Mine(d)
             /\ Mine(d) /\ r = s => deliveries[r].status = "sending"
  BY <1>1 DEF SendInv, ClaimsInv, Claimable, Follows, Mine
<1>7. ASSUME NEW r \in Row
      PROVE  /\ Claimable(deliveries'[r]) /\ Follows(deliveries[r], deliveries'[r])
             /\ deliveries'[r].attempts = deliveries[r].attempts
             /\ \/ deliveries'[r] = deliveries[r] /\ deliveries[r].token # d
                \/ /\ r = s /\ Mine(d) /\ deliveries'[r].token \notin Dispatcher
                   /\ deliveries[r].status = "sending"
  <2>1. CASE Mine(d) /\ r = s
    <3>1. deliveries'[r] = b
      BY <1>4, <2>1
    <3>2. QED BY <1>6, <2>1, <3>1
  <2>2. CASE ~(Mine(d) /\ r = s)
    BY <1>4, <1>6, <2>2
  <2>3. QED BY <2>1, <2>2
<1>8. QED BY <1>1, <1>2, <1>4, <1>5, <1>7 DEF DispStep

LEMMA SuppressRowStep ==
  ASSUME SendInv, NEW d \in Dispatcher, SuppressRow(d)
  PROVE  SendInv'
<1> DEFINE s == disp[d].row
           b == Suppress(deliveries, {s})[s]
<1>1. /\ disp[d].pc = "suppress" /\ disp' = [disp EXCEPT ![d] = Idle] /\ posted' = posted
      /\ disturbed' = disturbed
      /\ deliveries' = IF Mine(d) THEN Suppress(deliveries, {s}) ELSE deliveries
  BY DEF SuppressRow
<1>2. /\ s \in Row /\ Row = 1..Len(deliveries) /\ Len(deliveries) \in Nat
      /\ deliveries \in [Row -> DeliveryType] /\ \A r \in Row : Claimable(deliveries[r])
  BY <1>1, LenProperties DEF SendInv, SendTypes, ClaimsInv, Claimable, Row
<1>3. /\ Suppress(deliveries, {s}) \in [Row -> DeliveryType]
      /\ \A r \in Row : r \notin {s} => Suppress(deliveries, {s})[r] = deliveries[r]
      /\ b.token = None /\ b.status = "suppressed" /\ b.attempts = deliveries[s].attempts
      /\ Follows(deliveries[s], b)
  <2>1. s \in {s}
    OBVIOUS
  <2> HIDE DEF s
  <2>2. /\ deliveries \in [1..Len(deliveries) -> DeliveryType]
        /\ \A r \in 1..Len(deliveries) : Claimable(deliveries[r])
    BY <1>2
  <2>3. /\ Suppress(deliveries, {s}) \in [1..Len(deliveries) -> DeliveryType]
        /\ \A r \in 1..Len(deliveries) :
             /\ r \notin {s} => Suppress(deliveries, {s})[r] = deliveries[r]
             /\ r \in {s} => /\ Suppress(deliveries, {s})[r].token = None
                             /\ Suppress(deliveries, {s})[r].status = "suppressed"
                             /\ Suppress(deliveries, {s})[r].attempts = deliveries[r].attempts
                             /\ Follows(deliveries[r], Suppress(deliveries, {s})[r])
    BY <1>2, <2>2, SuppressRows
  <2>4. QED BY <1>2, <2>1, <2>3
<1>4. b \in DeliveryType /\ Claimable(b) /\ Suppress(deliveries, {s}) = [deliveries EXCEPT ![s] = b]
  <2>1. b \in DeliveryType /\ Claimable(b)
    BY <1>2, <1>3 DEF Claimable
  <2> DEFINE f == Suppress(deliveries, {s})
  <2>2. f \in [Row -> DeliveryType] /\ \A r \in Row : r # s => f[r] = deliveries[r]
    BY <1>3
  <2> HIDE DEF f
  <2>3. f = [deliveries EXCEPT ![s] = f[s]]
    BY <1>2, <2>2
  <2>4. QED BY <2>1, <2>3 DEF f
<1> HIDE DEF b
<1>5. disturbed' \in [1..MaxEvents -> Nat] /\ None \notin Dispatcher
  BY <1>1 DEF SendInv, SendTypes
<1>6. DispStep(d) /\ disp'[d].pc = "idle"
  BY <1>1, <1>3, <1>4, <1>5, EndsRow
<1>7. \A r \in Row : disturbed'[r] = disturbed[r] + (IF r = s THEN 0 ELSE 0)
  BY <1>1, RowFacts
<1>8. QED BY <1>1, <1>6, <1>7, Ends

LEMMA CompleteStep ==
  ASSUME SendInv, NEW d \in Dispatcher, Complete(d)
  PROVE  SendInv'
<1> DEFINE s == disp[d].row
           b == Completed(deliveries[s], disp[d].ok)
<1>1. /\ disp[d].pc = "complete" /\ disp' = [disp EXCEPT ![d] = Idle] /\ posted' = posted
      /\ disturbed' = disturbed
      /\ deliveries' = IF Mine(d) THEN [deliveries EXCEPT ![s] = b] ELSE deliveries
  BY DEF Complete
<1>2. s \in Row /\ deliveries[s] \in DeliveryType /\ Claimable(deliveries[s])
  BY <1>1, RowFacts DEF SendInv, ClaimsInv, Claimable
<1>3. /\ b \in DeliveryType /\ b.attempts = deliveries[s].attempts /\ b.token = None
      /\ b.occurred = deliveries[s].occurred /\ b.recalled = deliveries[s].recalled
      /\ b.status \in {"sent", "failed", "retry"} /\ (disp[d].ok => b.status = "sent")
  BY <1>2 DEF Completed, DeliveryType, Undelivered
<1>4. Mine(d) => deliveries[s].status = "sending"
  BY <1>2 DEF Mine, Claimable
<1> HIDE DEF b
<1>5. Mine(d) => Claimable(b) /\ Follows(deliveries[s], b) /\ b.token \notin Dispatcher
  BY <1>3, <1>4 DEF Claimable, Follows, Undelivered
<1>6. disturbed' \in [1..MaxEvents -> Nat]
  BY <1>1 DEF SendInv, SendTypes
<1>7. DispStep(d) /\ disp'[d].pc = "idle" /\ (Mine(d) => deliveries'[s] = b)
  BY <1>1, <1>3, <1>5, <1>6, EndsRow
<1>8. \A r \in Row : disturbed'[r] = disturbed[r] + (IF r = s THEN 0 ELSE 0)
  BY <1>1, RowFacts
<1>9. QED BY <1>1, <1>3, <1>7, <1>8, Ends

LEMMA LostStep ==
  ASSUME SendInv, NEW d \in Dispatcher, Lost(d)
  PROVE  SendInv'
<1> DEFINE s == disp[d].row
           b == [deliveries[s] EXCEPT !.token = "lost"]
<1>1. /\ disp[d].pc # "idle" /\ disp' = [disp EXCEPT ![d] = Idle] /\ posted' = posted
      /\ disturbed' = [r \in 1..MaxEvents |-> IF r \in {s} THEN disturbed[r] + 1 ELSE disturbed[r]]
      /\ deliveries' = IF Mine(d) THEN [deliveries EXCEPT ![s].token = "lost"] ELSE deliveries
  BY DEF Lost, Disturb
<1>2. s \in Row /\ deliveries[s] \in DeliveryType /\ Claimable(deliveries[s])
  BY <1>1, RowFacts DEF SendInv, ClaimsInv, Claimable
<1>3. /\ b \in DeliveryType /\ b.attempts = deliveries[s].attempts /\ b.token = "lost"
      /\ b.occurred = deliveries[s].occurred /\ b.recalled = deliveries[s].recalled
      /\ b.status = deliveries[s].status
  BY <1>2 DEF DeliveryType
<1>4. deliveries' = IF Mine(d) THEN [deliveries EXCEPT ![s] = b] ELSE deliveries
  BY <1>1
<1> HIDE DEF b
<1>5. Mine(d) => Claimable(b) /\ Follows(deliveries[s], b) /\ b.token \notin Dispatcher
  BY <1>2, <1>3 DEF Claimable, Follows, Mine
<1>6. disturbed' \in [1..MaxEvents -> Nat]
  BY <1>1 DEF SendInv, SendTypes
<1>7. DispStep(d) /\ disp'[d].pc = "idle"
  BY <1>1, <1>3, <1>4, <1>5, <1>6, EndsRow
<1>8. \A r \in Row : disturbed'[r] = disturbed[r] + (IF r = s THEN 1 ELSE 0)
  BY <1>1, RowFacts
<1>9. QED BY <1>1, <1>7, <1>8, Ends

-----------------------------------------------------------------------------
(* The channel, the clock and the claim *)

LEMMA RowsAreFun ==
  ASSUME SendInv
  PROVE  /\ Len(deliveries) \in Nat /\ Row = 1..Len(deliveries) /\ deliveries \in [Row -> DeliveryType]
         /\ disturbed \in [1..MaxEvents -> Nat]
         /\ \A r \in Row : Claimable(deliveries[r])
BY LenProperties DEF SendInv, SendTypes, ClaimsInv, Claimable, Row

LEMMA Unchanged ==
  ASSUME NEW a \in DeliveryType, Claimable(a)
  PROVE  Waits(a, a)
BY DEF Waits, Follows

LEMMA WaitsTwice ==
  ASSUME NEW a, NEW m, NEW b, Waits(a, m), Waits(m, b)
  PROVE  Waits(a, b)
<1>1. Follows(a, b) /\ b.attempts = a.attempts /\ Claimable(b) /\ (b.status = "sending" => a.status = "sending")
  BY DEF Waits, Follows
<1>2. b.token # a.token => a.token \notin Dispatcher /\ b.token \notin Dispatcher
  BY DEF Waits
<1>3. b.status # a.status => a.status # "sent"
  BY DEF Waits
<1>4. QED BY <1>1, <1>2, <1>3 DEF Waits

LEMMA OneRow ==
  ASSUME SendInv, NEW r \in Row, NEW b \in DeliveryType, Waits(deliveries[r], b),
         deliveries' = [deliveries EXCEPT ![r] = b], UNCHANGED <<disp, posted, disturbed>>
  PROVE  SendInv'
<1>1. /\ Len(deliveries) \in Nat /\ Row = 1..Len(deliveries) /\ deliveries \in [Row -> DeliveryType]
      /\ disturbed \in [1..MaxEvents -> Nat] /\ \A s \in Row : Claimable(deliveries[s])
  BY RowsAreFun
<1>2. /\ deliveries' \in [1..Len(deliveries) -> DeliveryType]
      /\ \A s \in Row : deliveries'[s] = IF s = r THEN b ELSE deliveries[s]
  BY <1>1
<1>3. deliveries' \in Seq(DeliveryType) /\ Len(deliveries') = Len(deliveries)
  BY <1>1, <1>2, FunIsSeq
<1>4. \A s \in Row : Waits(deliveries[s], deliveries'[s])
  BY <1>1, <1>2, Unchanged
<1>5. QED BY <1>1, <1>3, <1>4, Touched

LEMMA PassesStep ==
  ASSUME SendInv, NEW r, ClaimAges(r) \/ BackoffEnds(r)
  PROVE  SendInv' /\ Len(deliveries') = Len(deliveries)
<1>1. r \in Row /\ UNCHANGED <<disp, posted, disturbed>>
  BY DEF ClaimAges, BackoffEnds, sending
<1>2. deliveries \in [Row -> DeliveryType] /\ deliveries[r] \in DeliveryType /\ Claimable(deliveries[r])
  BY <1>1, RowsAreFun
<1>3. CASE ClaimAges(r)
  <2> DEFINE b == [deliveries[r] EXCEPT !.token = "overdue"]
  <2>1. b \in DeliveryType /\ Waits(deliveries[r], b)
    BY <1>2, <1>3 DEF ClaimAges, DeliveryType, Waits, Follows, Claimable
  <2>2. deliveries' = [deliveries EXCEPT ![r] = b]
    BY <1>3 DEF ClaimAges
  <2> HIDE DEF b
  <2>3. SendInv'
    BY <1>1, <2>1, <2>2, OneRow
  <2>4. DOMAIN deliveries' = DOMAIN deliveries
    BY <2>2
  <2>5. QED BY <2>3, <2>4, LenProperties DEF SendInv, SendTypes
<1>4. CASE BackoffEnds(r)
  <2> DEFINE b == [deliveries[r] EXCEPT !.due = TRUE]
  <2>1. b \in DeliveryType /\ Waits(deliveries[r], b)
    BY <1>2, <1>4 DEF BackoffEnds, DeliveryType, Waits, Follows, Claimable
  <2>2. deliveries' = [deliveries EXCEPT ![r] = b]
    BY <1>4 DEF BackoffEnds
  <2> HIDE DEF b
  <2>3. SendInv'
    BY <1>1, <2>1, <2>2, OneRow
  <2>4. DOMAIN deliveries' = DOMAIN deliveries
    BY <2>2
  <2>5. QED BY <2>3, <2>4, LenProperties DEF SendInv, SendTypes
<1>5. QED BY <1>3, <1>4

\* Switching the channel off takes out what is undelivered, under way or not.
LEMMA SetChannelStep ==
  ASSUME SendInv, NEW on \in BOOLEAN, SetChannel(on)
  PROVE  SendInv' /\ Len(deliveries') = Len(deliveries)
<1> DEFINE S == InStatus(deliveries, Undelivered)
           T == InStatus(deliveries, {"sending"})
<1>1. /\ Len(deliveries) \in Nat /\ Row = 1..Len(deliveries) /\ deliveries \in [Row -> DeliveryType]
      /\ disturbed \in [1..MaxEvents -> Nat] /\ \A s \in Row : Claimable(deliveries[s])
  BY RowsAreFun
<1>2. UNCHANGED <<disp, posted>> /\ Row \subseteq 1..MaxEvents /\ \A r \in Row : disturbed[r] \in Nat
  BY RowFacts DEF SetChannel
<1>3. CASE on
  <2>1. deliveries' = deliveries /\ disturbed' = [r \in 1..MaxEvents |-> IF r \in {} THEN disturbed[r] + 1 ELSE disturbed[r]]
    BY <1>3 DEF SetChannel, Disturb
  <2>2. disturbed' = disturbed
    BY <1>1, <2>1
  <2>3. QED BY <1>2, <2>1, <2>2, SendStays
<1>4. CASE ~on
  <2>1. /\ deliveries' = Suppress(deliveries, S)
        /\ disturbed' = [r \in 1..MaxEvents |-> IF r \in T THEN disturbed[r] + 1 ELSE disturbed[r]]
    BY <1>4 DEF SetChannel, Disturb
  <2>2. \A r \in Row : /\ r \in S <=> deliveries[r].status \in Undelivered
                       /\ r \in T <=> deliveries[r].status = "sending"
    BY <1>1 DEF InStatus
  <2> HIDE DEF S, T
  <2>3. /\ deliveries' \in [1..Len(deliveries) -> DeliveryType]
        /\ \A r \in 1..Len(deliveries) :
             /\ r \notin S => deliveries'[r] = deliveries[r]
             /\ r \in S /\ deliveries[r].status = "sending" => Recalled(deliveries[r], deliveries'[r])
             /\ r \in S /\ deliveries[r].status \in {"pending", "retry"} => Waits(deliveries[r], deliveries'[r])
    <3>1. deliveries \in [1..Len(deliveries) -> DeliveryType] /\ \A r \in 1..Len(deliveries) : Claimable(deliveries[r])
      BY <1>1
    <3>2. /\ Suppress(deliveries, S) \in [1..Len(deliveries) -> DeliveryType]
          /\ \A r \in 1..Len(deliveries) :
               /\ r \notin S => Suppress(deliveries, S)[r] = deliveries[r]
               /\ r \in S /\ deliveries[r].status = "sending" => Recalled(deliveries[r], Suppress(deliveries, S)[r])
               /\ r \in S /\ deliveries[r].status \in {"pending", "retry"}
                    => Waits(deliveries[r], Suppress(deliveries, S)[r])
      BY <1>1, <3>1, SuppressRows
    <3>3. QED BY <2>1, <3>2
  <2>4. deliveries' \in Seq(DeliveryType) /\ Len(deliveries') = Len(deliveries)
    BY <1>1, <2>3, FunIsSeq
  <2>5. disturbed' \in [1..MaxEvents -> Nat]
    BY <1>1, <2>1
  <2>6. ASSUME NEW r \in Row
        PROVE  \/ Waits(deliveries[r], deliveries'[r]) /\ disturbed'[r] = disturbed[r]
               \/ Recalled(deliveries[r], deliveries'[r]) /\ disturbed'[r] = disturbed[r] + 1
    <3>1. /\ r \in 1..Len(deliveries) /\ r \in 1..MaxEvents
          /\ deliveries[r] \in DeliveryType /\ Claimable(deliveries[r])
          /\ r \in S <=> deliveries[r].status \in Undelivered
          /\ r \in T <=> deliveries[r].status = "sending"
      <4>1. r \in 1..Len(deliveries) /\ r \in 1..MaxEvents
        BY <1>1, <1>2
      <4>2. deliveries[r] \in DeliveryType /\ Claimable(deliveries[r])
        BY <1>1
      <4>3. (r \in S <=> deliveries[r].status \in Undelivered) /\ (r \in T <=> deliveries[r].status = "sending")
        BY <2>2
      <4>4. QED BY <4>1, <4>2, <4>3
    <3>2. disturbed'[r] = IF r \in T THEN disturbed[r] + 1 ELSE disturbed[r]
      BY <2>1, <3>1
    <3>3. CASE r \notin S
      <4>1. deliveries'[r] = deliveries[r] /\ r \notin T
        BY <2>3, <3>1, <3>3 DEF Undelivered
      <4>2. Waits(deliveries[r], deliveries'[r])
        BY <3>1, <4>1, Unchanged
      <4>3. QED BY <3>2, <4>1, <4>2
    <3>4. CASE r \in S /\ r \in T
      BY <2>3, <3>1, <3>2, <3>4
    <3>5. CASE r \in S /\ r \notin T
      <4>1. deliveries[r].status \in {"pending", "retry"}
        BY <3>1, <3>5 DEF Undelivered
      <4>2. QED BY <2>3, <3>1, <3>2, <3>5, <4>1
    <3>6. QED BY <3>3, <3>4, <3>5
  <2>7. QED BY <1>2, <2>4, <2>5, <2>6, Touched
<1>5. QED BY <1>3, <1>4

LEMMA PreparedRows ==
  ASSUME SendInv
  PROVE  Prepared \in [Row -> DeliveryType] /\ \A r \in Row : Waits(deliveries[r], Prepared[r])
<1> DEFINE g(r) == IF deliveries[r].token = "overdue"
                   THEN [deliveries[r] EXCEPT !.status = "retry", !.token = None, !.due = TRUE]
                   ELSE deliveries[r]
           back == [r \in Row |-> g(r)]
           S == InStatus(back, {"pending", "retry"})
<1>1. /\ Len(deliveries) \in Nat /\ Row = 1..Len(deliveries) /\ deliveries \in [Row -> DeliveryType]
      /\ \A s \in Row : Claimable(deliveries[s])
  BY RowsAreFun
<1>2. ASSUME NEW r \in Row
      PROVE  g(r) \in DeliveryType /\ Waits(deliveries[r], g(r))
  <2> DEFINE a == deliveries[r]
  <2>1. a \in DeliveryType /\ Claimable(a)
    BY <1>1
  <2>2. CASE a.token = "overdue"
    <3> DEFINE b == [a EXCEPT !.status = "retry", !.token = None, !.due = TRUE]
    <3>1. a.status = "sending"
      BY <2>1, <2>2 DEF Claimable
    <3>2. b \in DeliveryType /\ b.status = "retry" /\ b.token = None /\ b.attempts = a.attempts
          /\ b.occurred = a.occurred /\ b.recalled = a.recalled
      BY <2>1 DEF DeliveryType, Undelivered
    <3>3. g(r) = b
      BY <2>2
    <3> HIDE DEF b, a, g
    <3>4. Waits(a, b)
      BY <2>2, <3>1, <3>2 DEF Waits, Follows, Claimable, Undelivered
    <3>5. QED BY <3>2, <3>3, <3>4 DEF a
  <2>3. CASE a.token # "overdue"
    BY <2>1, <2>3, Unchanged
  <2>4. QED BY <2>2, <2>3
<1>3. Prepared = IF ready /\ ~muted THEN back ELSE Suppress(back, S)
  BY DEF Prepared
<1> HIDE DEF g
<1>4. back \in [Row -> DeliveryType] /\ \A r \in Row : back[r] = g(r)
  BY <1>2
<1>5. \A r \in Row : Waits(deliveries[r], back[r]) /\ Claimable(back[r])
  BY <1>2, <1>4 DEF Waits
<1>6. \A r \in S : back[r].status \in {"pending", "retry"}
  BY DEF InStatus
<1> HIDE DEF back, S
<1>7. /\ Suppress(back, S) \in [1..Len(deliveries) -> DeliveryType]
      /\ \A r \in 1..Len(deliveries) :
           /\ r \notin S => Suppress(back, S)[r] = back[r]
           /\ r \in S /\ back[r].status \in {"pending", "retry"} => Waits(back[r], Suppress(back, S)[r])
  <2>1. back \in [1..Len(deliveries) -> DeliveryType] /\ \A r \in 1..Len(deliveries) : Claimable(back[r])
    BY <1>1, <1>4, <1>5
  <2>2. QED BY <1>1, <2>1, SuppressRows
<1>8. ASSUME NEW r \in Row
      PROVE  Waits(deliveries[r], Suppress(back, S)[r])
  <2>1. CASE r \in S
    <3>1. Waits(back[r], Suppress(back, S)[r])
      BY <1>1, <1>6, <1>7, <2>1
    <3>2. QED BY <1>5, <3>1, WaitsTwice
  <2>2. CASE r \notin S
    BY <1>1, <1>5, <1>7, <2>2
  <2>3. QED BY <2>1, <2>2
<1>9. QED BY <1>1, <1>3, <1>4, <1>5, <1>7, <1>8

\* A claim is of a delivery that has no earlier one left to be delivered.
LEMMA ClaimStep ==
  ASSUME SendInv, NEW d \in Dispatcher, Claim(d)
  PROVE  SendInv' /\ Len(deliveries') = Len(deliveries)
<1> DEFINE rs == Prepared
<1>1. /\ Len(deliveries) \in Nat /\ Row = 1..Len(deliveries) /\ deliveries \in [Row -> DeliveryType]
      /\ disturbed \in [1..MaxEvents -> Nat] /\ \A s \in Row : Claimable(deliveries[s])
  BY RowsAreFun
<1>2. rs \in [Row -> DeliveryType] /\ \A r \in Row : Waits(deliveries[r], rs[r])
  BY PreparedRows
<1>3. disp[d].pc = "idle" /\ UNCHANGED <<posted, disturbed>>
  BY DEF Claim
<1>4. CASE Deliverable(rs) = {}
  <2>1. deliveries' = rs /\ disp' = disp
    BY <1>4 DEF Claim
  <2> HIDE DEF rs
  <2>2. deliveries' \in [1..Len(deliveries) -> DeliveryType]
    BY <1>1, <1>2, <2>1
  <2>3. deliveries' \in Seq(DeliveryType) /\ Len(deliveries') = Len(deliveries)
    BY <1>1, <2>2, FunIsSeq
  <2>4. QED BY <1>1, <1>2, <1>3, <2>1, <2>3, Touched
<1>5. CASE Deliverable(rs) # {}
  <2>1. PICK t \in Deliverable(rs) :
          /\ deliveries' = [rs EXCEPT ![t].status = "sending", ![t].token = d, ![t].attempts = @ + 1]
          /\ disp' = [disp EXCEPT ![d] = [Idle EXCEPT !.pc = "gate", !.row = t]]
    BY <1>5 DEF Claim
  <2> HIDE DEF rs
  <2>2. /\ t \in Row /\ rs[t].status \in {"pending", "retry"}
        /\ \A k \in InStatus(rs, Undelivered) \ {t} : ~Earlier(rs, k, t)
    BY <1>2 DEF Deliverable, InStatus
  <2>3. /\ deliveries' \in [1..Len(deliveries) -> DeliveryType]
        /\ \A r \in Row : r # t => deliveries'[r] = rs[r]
        /\ deliveries'[t].status = "sending" /\ deliveries'[t].token = d
        /\ deliveries'[t].attempts = rs[t].attempts + 1
        /\ deliveries'[t].occurred = rs[t].occurred /\ deliveries'[t].recalled = rs[t].recalled
    <3>1. rs[t] \in DeliveryType
      BY <1>2, <2>2
    <3> DEFINE b == [rs[t] EXCEPT !.status = "sending", !.token = d, !.attempts = @ + 1]
    <3>2. /\ b \in DeliveryType /\ b.status = "sending" /\ b.token = d /\ b.attempts = rs[t].attempts + 1
          /\ b.occurred = rs[t].occurred /\ b.recalled = rs[t].recalled
      <4>1. rs[t].attempts + 1 \in Nat /\ "sending" \in Undelivered
        BY <3>1 DEF DeliveryType, Undelivered
      <4>2. b \in DeliveryType
        BY <3>1, <4>1 DEF DeliveryType
      <4>3. /\ b.status = "sending" /\ b.token = d /\ b.attempts = rs[t].attempts + 1
            /\ b.occurred = rs[t].occurred /\ b.recalled = rs[t].recalled
        BY <3>1 DEF DeliveryType
      <4>4. QED BY <4>2, <4>3
    <3>3. deliveries' = [rs EXCEPT ![t] = b]
      BY <1>2, <2>1, <2>2
    <3> HIDE DEF b
    <3>4. QED BY <1>1, <1>2, <2>2, <3>2, <3>3
  <2>4. deliveries' \in Seq(DeliveryType) /\ Len(deliveries') = Len(deliveries)
    BY <1>1, <2>3, FunIsSeq
  <2>5. Row' = Row
    BY <2>4 DEF Row
  <2>6. disp \in [Dispatcher -> DispType]
    BY DEF SendInv, SendTypes
  <2>7. /\ disp' \in [Dispatcher -> DispType] /\ \A e \in Dispatcher \ {d} : disp'[e] = disp[e]
        /\ disp'[d].pc = "gate" /\ disp'[d].row = t
    <3> DEFINE x == [Idle EXCEPT !.pc = "gate", !.row = t]
    <3>1. x \in DispType /\ x.pc = "gate" /\ x.row = t
      <4>1. t \in Nat
        BY <1>1, <2>2
      <4>2. QED BY <4>1 DEF Idle, DispType
    <3>2. disp' = [disp EXCEPT ![d] = x]
      BY <2>1
    <3> HIDE DEF x
    <3>3. QED BY <2>6, <3>1, <3>2
  <2>8. /\ deliveries[t].token \notin Dispatcher /\ deliveries[t].status \in Undelivered
        /\ deliveries[t].status # "sent" /\ deliveries[t].attempts \in Nat
        /\ rs[t].attempts = deliveries[t].attempts /\ rs[t].token = None
    BY <1>1, <1>2, <2>2 DEF Waits, Follows, Claimable, Undelivered, DeliveryType
  <2>9. \A r \in Row : r # t => Waits(deliveries[r], deliveries'[r])
    BY <1>2, <2>3
  <2>10. \A r \in Row : /\ Follows(deliveries[r], deliveries'[r])
                        /\ deliveries[r].attempts > 0 => deliveries'[r].attempts > 0
    <3>1. Waits(deliveries[t], rs[t])
      BY <1>2, <2>2
    <3>2. Follows(deliveries[t], deliveries'[t]) /\ deliveries'[t].attempts > 0
      BY <2>3, <2>8, <3>1 DEF Waits, Follows
    <3>3. QED BY <2>9, <3>2 DEF Waits
  <2>11. SendTypes'
    BY <1>3, <2>4, <2>5, <2>7 DEF SendInv, SendTypes
  <2>12. ASSUME NEW e \in Dispatcher \ {d}, disp[e].pc # "idle"
         PROVE  disp[e].row \in Row /\ (Mine(e)' <=> Mine(e))
    <3>1. disp[e].row \in Row /\ disp'[e] = disp[e]
      BY <2>7, <2>12 DEF SendInv, ClaimsInv
    <3>2. CASE disp[e].row = t
      BY <2>3, <2>8, <3>1, <3>2 DEF Mine
    <3>3. CASE disp[e].row # t
      BY <2>9, <3>1, <3>3 DEF Mine, Waits
    <3>4. QED BY <3>1, <3>2, <3>3
  <2>13. ClaimsInv'
    <3>1. ASSUME NEW r \in Row
          PROVE  /\ deliveries'[r].token = None <=> deliveries'[r].status # "sending"
                 /\ deliveries'[r].status = "sending" \/ Accepted(r)' => deliveries'[r].attempts > 0
                 /\ deliveries'[r].token \in Dispatcher =>
                      disp'[deliveries'[r].token].pc # "idle" /\ disp'[deliveries'[r].token].row = r
      <4>1. CASE r = t
        BY <2>3, <2>7, <2>8, <4>1
      <4>2. CASE r # t
        <5>1. Waits(deliveries[r], deliveries'[r])
          BY <2>9, <4>2
        <5>2. Accepted(r)' = Accepted(r)
          BY <1>3 DEF Accepted
        <5>3. ASSUME deliveries'[r].token \in Dispatcher
              PROVE  disp'[deliveries'[r].token].pc # "idle" /\ disp'[deliveries'[r].token].row = r
          <6>1. deliveries'[r].token = deliveries[r].token
            BY <5>1, <5>3 DEF Waits
          <6>2. disp[deliveries[r].token].pc # "idle" /\ disp[deliveries[r].token].row = r
            BY <5>3, <6>1 DEF SendInv, ClaimsInv
          <6>3. deliveries[r].token # d
            BY <1>3, <6>2
          <6>4. QED BY <2>7, <5>3, <6>1, <6>2, <6>3
        <5>4. QED BY <5>1, <5>2, <5>3 DEF SendInv, ClaimsInv, Waits, Claimable
      <4>3. QED BY <4>1, <4>2
    <3>2. ASSUME NEW e \in Dispatcher, disp'[e].pc # "idle"
          PROVE  /\ disp'[e].row \in Row /\ deliveries'[disp'[e].row].attempts > 0
                 /\ disp'[e].pc = "post" => Mine(e)' \/ deliveries'[disp'[e].row].recalled
      <4>1. CASE e = d
        BY <2>2, <2>3, <2>7, <2>8, <4>1
      <4>2. CASE e # d
        <5>1. disp'[e] = disp[e] /\ disp[e].pc # "idle" /\ e \in Dispatcher \ {d}
          BY <2>7, <3>2, <4>2
        <5>2. /\ disp[e].row \in Row /\ deliveries[disp[e].row].attempts > 0
              /\ disp[e].pc = "post" => Mine(e) \/ deliveries[disp[e].row].recalled
          BY <5>1 DEF SendInv, ClaimsInv
        <5>3. QED BY <2>10, <2>12, <5>1, <5>2 DEF Follows
      <4>3. QED BY <4>1, <4>2
    <3>3. QED BY <2>5, <3>1, <3>2 DEF ClaimsInv
  <2>14. ASSUME NEW r \in Row
         PROVE  Balanced(r)'
    <3>1. Strays(r)' = Strays(r)
      <4>1. \A e \in Dispatcher \ {d} : e \in Strays(r)' <=> e \in Strays(r)
        BY <2>7, <2>12 DEF Strays
      <4>2. d \notin Strays(r)' /\ d \notin Strays(r)
        BY <1>3, <2>7 DEF Strays
      <4>3. Strays(r)' \subseteq Dispatcher /\ Strays(r) \subseteq Dispatcher
        BY DEF Strays
      <4>4. QED BY <4>1, <4>2, <4>3
    <3>2. Made(r) => Made(r)'
      <4>1. deliveries[r].status = "sent" => deliveries'[r].status = "sent"
        BY <2>8, <2>9 DEF Waits
      <4>2. ASSUME NEW e \in Dispatcher, disp[e].pc = "complete", disp[e].ok, disp[e].row = r, Mine(e)
            PROVE  Made(r)'
        <5>1. e \in Dispatcher \ {d} /\ disp'[e] = disp[e]
          BY <1>3, <2>7, <4>2
        <5>2. QED BY <2>12, <4>2, <5>1 DEF Made
      <4>3. QED BY <4>1, <4>2 DEF Made
    <3>3. Posts(r)' = Posts(r) + 0 /\ disturbed'[r] = disturbed[r] + 0
      <4>1. Posts(r)' = Posts(r) /\ Posts(r) = PostsIn(posted, r) /\ posted \in Seq(Row)
        BY <1>3 DEF Posts, PostsIn, SendInv, SendTypes
      <4>2. QED BY <1>3, <4>1, PostsCount, RowFacts
    <3>4. Strays(r)' \in SUBSET Dispatcher
      BY DEF Strays
    <3>5. 0 + Bit(None \in Strays(r)') + Bit(Made(r)) <= 0 + Bit(Made(r)') + Bit(None \in Strays(r))
      <4>1. Bit(None \in Strays(r)') = Bit(None \in Strays(r)) /\ Bit(None \in Strays(r)) \in {0, 1}
        BY <3>1 DEF Bit
      <4>2. Bit(Made(r)) <= Bit(Made(r)') /\ Bit(Made(r)) \in {0, 1} /\ Bit(Made(r)') \in {0, 1}
        BY <3>2 DEF Bit
      <4>3. QED BY <4>1, <4>2
    <3>6. QED BY <3>1, <3>3, <3>4, <3>5, Balance
  <2>15. OrderInv'
    <3>1. \A r, s \in Row : Earlier(deliveries', r, s) => Earlier(deliveries, r, s)
      BY <2>10 DEF Earlier, Follows
    <3>2. \A i \in 1..Len(posted) : posted[i] \in Row
      BY DEF SendInv, SendTypes
    <3>3. ASSUME NEW r \in Row, NEW s \in Row, r < s, Earlier(deliveries', r, s), deliveries'[s].attempts > 0
          PROVE  deliveries'[r].status \notin Undelivered
      <4>1. CASE s # t
        <5>1. deliveries[s].attempts > 0
          BY <2>9, <3>3, <4>1 DEF Waits
        <5>2. deliveries[r].status \notin Undelivered
          BY <3>1, <3>3, <5>1 DEF SendInv, OrderInv
        <5>3. QED BY <2>10, <5>2 DEF Follows
      <4>2. CASE s = t
        <5>1. r # t /\ deliveries'[r] = rs[r]
          BY <1>1, <2>3, <3>3, <4>2
        <5>2. Earlier(rs, r, t)
          BY <2>3, <3>3, <4>2, <5>1 DEF Earlier
        <5>3. r \notin InStatus(rs, Undelivered)
          BY <2>2, <5>1, <5>2
        <5>4. QED BY <1>2, <5>1, <5>3 DEF InStatus
      <4>3. QED BY <4>1, <4>2
    <3>4. ASSUME NEW i \in 1..Len(posted), NEW k \in 1..Len(posted), i < k, posted[k] < posted[i],
                 Earlier(deliveries', posted[k], posted[i])
          PROVE  deliveries'[posted[k]].recalled
      BY <2>10, <3>1, <3>2, <3>4 DEF SendInv, OrderInv, Follows
    <3>5. QED BY <1>3, <2>5, <3>3, <3>4 DEF OrderInv
  <2>16. QED BY <2>4, <2>5, <2>11, <2>13, <2>14, <2>15 DEF SendInv, PostsInv
<1>6. QED BY <1>4, <1>5

-----------------------------------------------------------------------------
(* Every step *)

\* The steps of the dispatchers, the channel and the clock of the deliveries.
LEMMA SendStep ==
  ASSUME SendInv,
         \/ \E on \in BOOLEAN : SetChannel(on) \/ SetMuted(on)
         \/ \E d \in Dispatcher : \/ Claim(d) \/ Gate(d) \/ GateFails(d) \/ SuppressRow(d) \/ Complete(d) \/ Lost(d)
                                  \/ \E late \in BOOLEAN : Post(d, late)
         \/ \E r \in 1..MaxEvents : ClaimAges(r) \/ BackoffEnds(r)
  PROVE  SendInv' /\ Len(deliveries') = Len(deliveries) /\ UNCHANGED <<now, content, forms, calls, answer>>
<1>1. ASSUME NEW on \in BOOLEAN, SetChannel(on) \/ SetMuted(on)
      PROVE  SendInv' /\ Len(deliveries') = Len(deliveries) /\ UNCHANGED <<now, content, forms, calls, answer>>
  <2>1. CASE SetChannel(on)
    BY <2>1, SetChannelStep DEF SetChannel, admin
  <2>2. CASE SetMuted(on)
    BY <2>2, SendStays DEF SetMuted, admin, sending
  <2>3. QED BY <1>1, <2>1, <2>2
<1>2. ASSUME NEW d \in Dispatcher,
             \/ Claim(d) \/ Gate(d) \/ GateFails(d) \/ SuppressRow(d) \/ Complete(d) \/ Lost(d)
             \/ \E late \in BOOLEAN : Post(d, late)
      PROVE  SendInv' /\ Len(deliveries') = Len(deliveries) /\ UNCHANGED <<now, content, forms, calls, answer>>
  <2>1. SendInv'
    BY <1>2, ClaimStep, GateStep, SuppressRowStep, CompleteStep, LostStep, PostStep
  <2>2. UNCHANGED <<now, content, forms, calls, answer>>
    BY <1>2 DEF Claim, Gate, GateFails, SuppressRow, Complete, Lost, Post, DispFrame, admin
  <2>3. CASE Claim(d)
    BY <2>1, <2>2, <2>3, ClaimStep
  <2>4. CASE ~Claim(d)
    <3>1. DOMAIN deliveries' = DOMAIN deliveries
      BY <1>2, <2>4 DEF Gate, GateFails, SuppressRow, Complete, Lost, Post, Suppress
    <3>2. deliveries \in Seq(DeliveryType) /\ deliveries' \in Seq(DeliveryType)
      BY <2>1 DEF SendInv, SendTypes
    <3>3. Len(deliveries') = Len(deliveries)
      BY <3>1, <3>2, LenProperties
    <3>4. QED BY <2>1, <2>2, <3>3
  <2>5. QED BY <2>3, <2>4
<1>3. ASSUME NEW r \in 1..MaxEvents, ClaimAges(r) \/ BackoffEnds(r)
      PROVE  SendInv' /\ Len(deliveries') = Len(deliveries) /\ UNCHANGED <<now, content, forms, calls, answer>>
  BY <1>3, PassesStep DEF ClaimAges, BackoffEnds, admin
<1>4. QED BY <1>1, <1>2, <1>3

LEMMA NextInv == Inv /\ [Next]_vars => Inv'
<1> SUFFICES ASSUME Inv, [Next]_vars PROVE Inv'
  OBVIOUS
<1>1. ContentInv /\ SendInv /\ SendTypes
  BY DEF Inv, SendInv
<1>2. ASSUME NEW s \in Schedules, Create(s)
      PROVE  Inv'
  BY <1>1, <1>2, CreateStep, SendStays DEF Inv, Create, sending
<1>3. CASE OpenForm
  BY <1>1, <1>3, OpenFormStep, SendStays DEF Inv, OpenForm, sending
<1>4. ASSUME NEW q \in 1..Len(forms), NEW life \in Lifecycle,
             SubmitIncident(q, life) \/ SubmitMaintenance(q) \/ SubmitAnnouncement(q)
      PROVE  Inv'
  <2>1. ContentInv'
    BY <1>1, <1>4, SubmitStep DEF Form
  <2>2. UNCHANGED <<deliveries, disp, posted, disturbed>>
    BY <1>4 DEF SubmitIncident, SubmitMaintenance, SubmitAnnouncement, SubmitFrame, sending
  <2>3. QED BY <1>1, <2>1, <2>2, SendStays DEF Inv
<1>5. ASSUME NEW c \in calls, Commit(c)
      PROVE  Inv'
  <2>1. ContentInv' /\ (deliveries' = deliveries \/ Grown) /\ UNCHANGED <<disp, posted, disturbed>>
    BY <1>1, <1>5, CommitStep DEF sending
  <2>2. Len(deliveries') <= MaxEvents
    <3>1. ContentInv' => (Len(deliveries) <= MaxEvents)'
      BY FewEvents, PTL
    <3>2. QED BY <2>1, <3>1
  <2>3. QED BY <1>1, <2>1, <2>2, SendStays, SendGrows DEF Inv
<1>6. CASE \/ \E on \in BOOLEAN : SetChannel(on) \/ SetMuted(on)
           \/ \E d \in Dispatcher : \/ Claim(d) \/ Gate(d) \/ GateFails(d) \/ SuppressRow(d) \/ Complete(d) \/ Lost(d)
                                    \/ \E late \in BOOLEAN : Post(d, late)
           \/ \E r \in 1..MaxEvents : ClaimAges(r) \/ BackoffEnds(r)
  <2>1. SendInv' /\ Len(deliveries') = Len(deliveries) /\ UNCHANGED <<now, content, forms, calls, answer>>
    BY <1>1, <1>6, SendStep
  <2>2. QED BY <1>1, <2>1, ContentStays DEF Inv
<1>7. CASE Tick
  BY <1>1, <1>7, TickStep, SendStays DEF Inv, Tick, sending
<1>8. CASE UNCHANGED vars
  BY <1>1, <1>8, ContentStays, SendStays DEF Inv, vars, admin, sending
<1>9. (\E q \in 1..Len(forms) : \/ \E life \in Lifecycle : SubmitIncident(q, life)
                                \/ SubmitMaintenance(q) \/ SubmitAnnouncement(q)) => Inv'
  <2>1. 1 \in Lifecycle
    BY DEF Lifecycle, Resolved
  <2>2. QED BY <1>4, <2>1
<1>10. QED BY <1>2, <1>3, <1>5, <1>6, <1>7, <1>8, <1>9 DEF Next

-----------------------------------------------------------------------------
(* What the feed shows *)

SubFeed ==
  /\ Feed \in {"resolved", "cancelled", "past"} => Feed' \in {Feed, None}
  /\ Feed = "completed" => Feed' \in {"completed", "cancelled"}
  /\ item.state = "archived" /\ Feed = None => Feed' = None

\* The feed of an item that nothing happens to follows the clock.
LEMMA FeedFollowsClock ==
  ASSUME ContentInv, UNCHANGED <<item, updates>>, now' = now \/ now' = now + 1
  PROVE  SubFeed
<1>1. now \in Nat /\ item \in ItemType /\ item.state \in StatesOf(item.kind)
  BY DEF ContentInv, ContentTypes, ItemInv
<1>2. CASE item.kind = "incident"
  BY <1>1, <1>2 DEF SubFeed, Feed, IncidentInFeed, StatesOf
<1>3. CASE item.kind = "maintenance"
  <2>1. item.state # "absent" => item.to \in Nat
    BY <1>3 DEF ContentInv, ItemInv
  <2>2. item.from \in Nat
    BY <1>1 DEF ItemType
  <2>3. QED BY <1>1, <1>3, <2>1, <2>2 DEF SubFeed, Feed, MaintenanceInFeed, StatesOf
<1>4. CASE item.kind = "announcement"
  <2>1. item.state = "archived" => item.archivedAt \in 0..now
    BY DEF ContentInv, ItemInv
  <2>2. item.from \in Nat /\ item.to \in Nat \cup {None}
    BY <1>1 DEF ItemType
  <2>3. CASE item.state = "archived"
    BY <1>1, <1>4, <2>1, <2>2, <2>3 DEF SubFeed, Feed, AnnouncementInFeed, AnnouncementShown
  <2>4. CASE item.state # "archived"
    <3>1. CASE item.state = "published"
      <4>1. /\ Feed = IF item.from <= now THEN IF item.to = None \/ item.to > now THEN "active" ELSE "past" ELSE None
            /\ Feed' = IF item.from <= now' THEN IF item.to = None \/ item.to > now' THEN "active" ELSE "past" ELSE None
        BY <1>4, <3>1 DEF Feed, AnnouncementInFeed, AnnouncementShown
      <4>2. Feed \notin {"resolved", "cancelled", "completed"}
        BY <4>1, NoStatus DEF FeedStatus
      <4>3. Feed = "past" => item.from <= now /\ item.to \in Nat /\ item.to <= now
        BY <1>1, <2>2, <4>1, NoStatus DEF FeedStatus
      <4>4. Feed = "past" => Feed' = "past"
        <5>1. ASSUME Feed = "past" PROVE item.from <= now' /\ item.to # None /\ ~(item.to > now')
          <6>1. item.to # None
            BY <4>1, <5>1, NoStatus DEF FeedStatus
          <6>2. QED BY <1>1, <2>2, <4>3, <5>1, <6>1
        <5>2. QED BY <4>1, <5>1
      <4>5. QED BY <2>4, <4>2, <4>4 DEF SubFeed
    <3>2. CASE item.state \in {"absent", "draft"}
      <4>1. Feed = None
        BY <3>2 DEF Feed
      <4>2. QED BY <2>4, <4>1, NoStatus DEF SubFeed, FeedStatus
    <3>3. QED BY <1>1, <1>4, <2>4, <3>1, <3>2 DEF StatesOf
  <2>5. QED BY <2>3, <2>4
<1>5. QED BY <1>1, <1>2, <1>3, <1>4 DEF ItemType, Kind

LEMMA CommitFeed ==
  ASSUME ContentInv, NEW c \in calls, Commit(c)
  PROVE  SubFeed
<1>1. now \in Nat /\ item \in ItemType /\ item.state \in StatesOf(item.kind) /\ now' = now
  BY DEF ContentInv, ContentTypes, ItemInv, Commit, Change, PublishIncident, AppendUpdate, Reply, Answer
<1>2. CASE UNCHANGED <<item, updates>>
  BY <1>1, <1>2, FeedFollowsClock
<1>3. CASE item.kind = "incident" /\ ~UNCHANGED <<item, updates>>
  <2>1. \/ item.state = "draft"
        \/ item.state = "published" /\ item.life # Resolved
    BY <1>3 DEF Commit, PublishIncident, AppendUpdate, MayAppend, Reply, content
  <2>2. Feed \in {None, "unavailable", "active"} /\ item.state # "archived"
    BY <1>3, <2>1 DEF Feed, IncidentInFeed
  <2>3. QED BY <2>2, NoStatus DEF SubFeed, FeedStatus
<1>4. CASE item.kind # "incident" /\ ~UNCHANGED <<item, updates>>
  <2>1. ~Refused(c) /\ item.state # Target(forms[c.req].op) /\ item' = Changed(c)
    BY <1>4 DEF Commit, Change, Reply, content
  <2>2. /\ item' \in ItemType /\ item'.kind = item.kind /\ item'.state = Target(forms[c.req].op)
        /\ item'.to = item.to /\ item'.from = item.from
        /\ forms[c.req].op \in {"publish", "cancel", "archive"}
        /\ forms[c.req].op = "publish" => item.state = "draft"
        /\ forms[c.req].op = "cancel" => item.kind = "maintenance" /\ item.state = "published"
        /\ forms[c.req].op = "archive" => item.kind = "announcement" /\ item.state = "published"
    BY <1>4, <2>1, ItemChanges
  <2>3. CASE forms[c.req].op = "publish"
    <3>1. Feed = None /\ item.state # "archived"
      BY <2>2, <2>3 DEF Feed
    <3>2. QED BY <3>1, NoStatus DEF SubFeed, FeedStatus
  <2>4. CASE forms[c.req].op = "cancel"
    BY <2>2, <2>4 DEF SubFeed, Feed, MaintenanceInFeed, Target
  <2>5. CASE forms[c.req].op = "archive"
    <3>1. item.kind = "announcement" /\ item.state = "published" /\ item'.state = "archived"
      BY <2>2, <2>5 DEF Target
    <3>2. Feed \in {None, "active", "past"} /\ Feed' \in {None, "past"}
      BY <2>2, <3>1 DEF Feed, AnnouncementInFeed
    <3>3. QED BY <3>1, <3>2, NoStatus DEF SubFeed, FeedStatus
  <2>6. QED BY <2>2, <2>3, <2>4, <2>5
<1>5. QED BY <1>2, <1>3, <1>4

LEMMA NextFeed == Inv /\ [Next]_vars => SubFeed
<1> SUFFICES ASSUME Inv, [Next]_vars PROVE SubFeed
  OBVIOUS
<1>1. ContentInv /\ SendInv
  BY DEF Inv
<1>2. ASSUME NEW s \in Schedules, Create(s)
      PROVE  SubFeed
  BY <1>2 DEF Create, SubFeed, Feed
<1>3. ASSUME NEW c \in calls, Commit(c)
      PROVE  SubFeed
  BY <1>1, <1>3, CommitFeed
<1>4. CASE Tick
  BY <1>1, <1>4, FeedFollowsClock DEF Tick, content
<1>5. CASE \/ OpenForm
           \/ \E q \in 1..Len(forms) : \/ \E life \in Lifecycle : SubmitIncident(q, life)
                                       \/ SubmitMaintenance(q) \/ SubmitAnnouncement(q)
           \/ UNCHANGED vars
  BY <1>1, <1>5, FeedFollowsClock DEF OpenForm, SubmitIncident, SubmitMaintenance, SubmitAnnouncement,
     SubmitFrame, content, vars
<1>6. CASE \/ \E on \in BOOLEAN : SetChannel(on) \/ SetMuted(on)
           \/ \E d \in Dispatcher : \/ Claim(d) \/ Gate(d) \/ GateFails(d) \/ SuppressRow(d) \/ Complete(d) \/ Lost(d)
                                    \/ \E late \in BOOLEAN : Post(d, late)
           \/ \E r \in 1..MaxEvents : ClaimAges(r) \/ BackoffEnds(r)
  <2>1. UNCHANGED <<now, content>>
    BY <1>1, <1>6, SendStep
  <2>2. QED BY <1>1, <2>1, FeedFollowsClock DEF content
<1>7. QED BY <1>2, <1>3, <1>4, <1>5, <1>6 DEF Next

-----------------------------------------------------------------------------
(* Theorems *)

LEMMA SpecInv == Spec => []Inv
<1>1. Init => Inv
  BY InitContent, InitSend DEF Inv
<1>2. QED BY <1>1, NextInv, PTL DEF Spec

\* However often a form is submitted and however long an RPC waits for the row, a request takes
\* effect at most once, a success that was answered is true, every public transition has one event,
\* and an incident only moves forward.  (publish_status_incident_v1,
\* append_status_incident_update_v1 and the RPCs of maintenance notices and announcements.)
THEOREM RequestsAreIdempotent == Spec => []RequestsTakeEffectOnce
<1>1. Inv => RequestsTakeEffectOnce
  BY DEF Inv, ContentInv
<1>2. QED BY <1>1, SpecInv, PTL

\* Whatever RPCs wait and however they commit, the public feed never takes back the end of an item.
\* (get_status_public_feed_v1 and the guards of the mutation RPCs.)
THEOREM FeedKeepsTheEnd == Spec => FeedNeverRevives
<1>1. Inv /\ [Next]_vars => [SubFeed]_vars
  BY NextFeed
<1>2. Spec => [][SubFeed]_vars
  BY <1>1, SpecInv, PTL DEF Spec
<1>3. QED BY <1>2 DEF FeedNeverRevives, SubFeed

\* However many dispatchers overlap, Discord gets a lifecycle message once, and once more for each
\* outcome that was lost and each claim that was taken away, and in the order of the events but for
\* those recalled on their way.  (claim_notification_deliveries_v1, deliverEventRow,
\* complete_notification_event_delivery_v1.)
THEOREM EventsPostedOnceInOrder == Spec => []PostedOnceInOrder
<1>1. Inv => PostedOnceInOrder
  <2> SUFFICES ASSUME Inv PROVE PostedOnceInOrder
    OBVIOUS
  <2>1. SendInv
    BY DEF Inv
  <2>2. ASSUME NEW r \in Row
        PROVE  Posts(r) <= 1 + disturbed[r]
    <3>1. Posts(r) + Cardinality(Strays(r)) <= disturbed[r] + (IF Made(r) THEN 1 ELSE 0)
      BY <2>1 DEF SendInv, PostsInv, Balanced
    <3>2. Posts(r) \in Nat
      <4>1. posted \in Seq(Row) /\ Posts(r) = PostsIn(posted, r)
        BY <2>1 DEF SendInv, SendTypes, Posts, PostsIn
      <4>2. QED BY <4>1, PostsCount
    <3>3. Cardinality(Strays(r)) \in Nat
      <4>1. Strays(r) \in SUBSET Dispatcher
        BY DEF Strays
      <4>2. QED BY <4>1, SetsBut
    <3>4. disturbed[r] \in Nat
      BY <2>1, RowFacts
    <3>5. QED BY <3>1, <3>2, <3>3, <3>4
  <2>3. QED BY <2>1, <2>2 DEF SendInv, OrderInv, PostedOnceInOrder
<1>2. QED BY <1>1, SpecInv, PTL
=============================================================================
