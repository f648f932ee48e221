-------------------------- MODULE OperationConsole --------------------------
(***************************************************************************)
(* From the button to the worker and back: the lifecycle panel of the      *)
(* Operations page with its polling, the API that lists and creates jobs,  *)
(* the transaction that creates one, and the signed claims of the agent    *)
(* with their replay ledger.  What happens to a job once it is leased is   *)
(* McMainLifecycle; here the worker reports any legal status.              *)
(*                                                                         *)
(* Nothing here looks at a job that has ended: only the active are kept.   *)
(***************************************************************************)
EXTENDS JobTable, FiniteSets

CONSTANTS
  Tab, Session,
  SessionRank, \* the role of a session's user; each user has one session
  Trouble,     \* whether sessions end or change, tabs hide and calls fail
  MaxPolls,    \* bound: lists of the interval that a tab is waiting for
  MaxSubmits,  \* bound: requests for a job
  MaxClaims    \* bound: claims the agent sends

ASSUME OperationConsoleAssumption ==
  /\ SessionRank \in [Session -> 0..3]
  /\ Trouble \in BOOLEAN
  /\ MaxPolls \in Nat /\ MaxSubmits \in Nat /\ MaxClaims \in Nat

VARIABLES
  live,      \* the sessions that are neither revoked nor expired
  presented, \* the session the browser presents
  tabs,      \* the panel in each tab
  gets,      \* the lists it waits for: 0 after a request, the others of the interval
  posts,     \* its request for a job
  submits,
  txns,      \* the transactions of enqueue_discord_operation_job that are open
  jobs,      \* the active rows of operation_jobs
  sent,      \* the agent's claims are numbered by their nonces
  ledger,    \* operation_agent_requests
  claiming,  \* the claims that have passed the ledger
  leases     \* history: the leases given for each nonce

browser == <<tabs, gets, posts, submits>>
access == <<live, presented>>
agent == <<sent, ledger, claiming, leases>>
consoleVars == <<access, browser, txns, jobs, agent>>

NoPost == [pc |-> "none"]
NoGet == [pc |-> "none"]
NoGets == [i \in 0..MaxPolls |-> NoGet]
Closed == [open |-> FALSE, active |-> FALSE]

ConsoleInit ==
  /\ live = Session /\ presented \in Session
  /\ tabs = [t \in Tab |-> Closed]
  /\ gets = [t \in Tab |-> NoGets]
  /\ posts = [t \in Tab |-> NoPost] /\ submits = 0
  /\ txns = {} /\ jobs = {}
  /\ sent = 0 /\ ledger = {} /\ claiming = {} /\ leases = [n \in 1..MaxClaims |-> 0]

-----------------------------------------------------------------------------
(* Reading the jobs *)

\* listDiscordOperationJobs: those of the user.  Whether one is active is what the
\* panel goes by.
ListsActive(s) == \E j \in jobs : j.by = s

\* OperationsPage
Open(t) ==
  /\ ~tabs[t].open /\ presented \in live
  /\ tabs' = [tabs EXCEPT ![t] = [open |-> TRUE, session |-> presented, visible |-> TRUE,
                                  active |-> ListsActive(presented)]]
  /\ UNCHANGED <<access, gets, posts, submits, txns, jobs, agent>>

HasActiveJob(t) == tabs[t].active

\* fetch of refresh
Send(t, i) ==
  /\ gets[t][i] = NoGet
  /\ gets' = [gets EXCEPT ![t][i] = [pc |-> "asked", session |-> presented]]

\* setInterval.  A hidden tab asks nothing.
Interval(t) ==
  /\ HasActiveJob(t) /\ tabs[t].visible
  /\ \E i \in 1..MaxPolls : Send(t, i)
  /\ UNCHANGED <<access, tabs, posts, submits, txns, jobs, agent>>

\* A refresh is over.  For the one after a request the panel was pending.
Settled(t, i) ==
  /\ gets' = [gets EXCEPT ![t][i] = NoGet]
  /\ posts' = IF i = 0 THEN [posts EXCEPT ![t] = NoPost] ELSE posts

\* GET /api/operations/jobs.  An answer that is not ok ends the refresh.
AnswerGet(t, i) ==
  /\ gets[t][i].pc = "asked"
  /\ IF gets[t][i].session \in live
     THEN /\ gets' = [gets EXCEPT ![t][i] = [pc |-> "answered", active |-> ListsActive(@.session)]]
          /\ UNCHANGED posts
     ELSE Settled(t, i)
  /\ UNCHANGED <<access, tabs, submits, txns, jobs, agent>>

\* The list that arrives last is the one shown.
Deliver(t, i) ==
  /\ gets[t][i].pc = "answered"
  /\ tabs' = [tabs EXCEPT ![t].active = gets[t][i].active]
  /\ Settled(t, i)
  /\ UNCHANGED <<access, submits, txns, jobs, agent>>

\* A call of the transition that is lost throws, and no error boundary is there: the
\* page is gone and has to be opened anew.
Crash(t) ==
  /\ tabs' = [tabs EXCEPT ![t] = Closed]
  /\ gets' = [gets EXCEPT ![t] = NoGets]
  /\ posts' = [posts EXCEPT ![t] = NoPost]

LoseGet(t, i) ==
  /\ Trouble /\ gets[t][i] # NoGet
  /\ IF i = 0 THEN Crash(t) ELSE Settled(t, i) /\ UNCHANGED tabs
  /\ UNCHANGED <<access, submits, txns, jobs, agent>>

-----------------------------------------------------------------------------
(* Asking for a job *)

RoleAllows(s, rank) == SessionRank[s] >= rank

\* submit.  What the button allows is what the page's session was allowed.
Submit(t, op) ==
  /\ tabs[t].open /\ posts[t] = NoPost /\ submits < MaxSubmits
  /\ ~HasActiveJob(t) /\ RoleAllows(tabs[t].session, RequiredRank(op))
  /\ submits' = submits + 1
  /\ posts' = [posts EXCEPT ![t] = [pc |-> "sent", n |-> submits + 1, session |-> presented,
                                    rank |-> RequiredRank(op)]]
  /\ UNCHANGED <<access, tabs, gets, txns, jobs, agent>>

\* The request or its answer is lost; a transaction that has begun goes on.
LosePost(t) ==
  /\ Trouble /\ posts[t].pc \in {"sent", "enqueueing", "answered"}
  /\ Crash(t)
  /\ UNCHANGED <<access, submits, txns, jobs, agent>>

Answered(t) == posts' = [posts EXCEPT ![t] = [pc |-> "answered"]]

\* POST: the session is resolved and its role checked before the body is trusted.
Resolve(t) ==
  /\ posts[t].pc = "sent"
  /\ IF posts[t].session \in live /\ RoleAllows(posts[t].session, posts[t].rank)
     THEN /\ txns' = txns \cup {[n |-> posts[t].n, tab |-> t, session |-> posts[t].session,
                                  rank |-> posts[t].rank, pc |-> "begin"]}
          /\ posts' = [posts EXCEPT ![t].pc = "enqueueing"]
     ELSE Answered(t) /\ UNCHANGED txns
  /\ UNCHANGED <<access, tabs, gets, submits, jobs, agent>>

Waits(x) == posts[x.tab].pc = "enqueueing" /\ posts[x.tab].n = x.n
Reply(x) == IF Waits(x) THEN Answered(x.tab) ELSE UNCHANGED posts

Denied(x) == ~(x.session \in live /\ RoleAllows(x.session, x.rank))

\* enqueue_discord_operation_job reads the session and its role, and then waits
\* for the lock of the scope.
Begin(x) ==
  /\ x \in txns /\ x.pc = "begin"
  /\ txns' = (txns \ {x}) \cup (IF Denied(x) THEN {} ELSE {[x EXCEPT !.pc = "lock"]})
  /\ IF Denied(x) THEN Reply(x) ELSE UNCHANGED posts
  /\ UNCHANGED <<access, tabs, gets, submits, jobs, agent>>

\* With the lock: in conflict with an active job, or created.  Each request has a
\* key of its own, so none meets a job that exists already.
Enqueue(x) ==
  /\ x \in txns /\ x.pc = "lock"
  /\ txns' = txns \ {x}
  /\ jobs' = IF jobs # {} THEN jobs ELSE {[by |-> x.session, status |-> "queued"]}
  /\ Reply(x)
  /\ UNCHANGED <<access, tabs, gets, submits, agent>>

\* callRpc gives up: the panel hears of a failure, the transaction goes on.
EnqueueTimesOut(t) ==
  /\ Trouble /\ posts[t].pc = "enqueueing"
  /\ Answered(t)
  /\ UNCHANGED <<access, tabs, gets, submits, txns, jobs, agent>>


\* The message, and the refresh that a hidden tab skips.
Announce(t) ==
  /\ posts[t].pc = "answered"
  /\ IF tabs[t].visible
     THEN Send(t, 0) /\ posts' = [posts EXCEPT ![t] = [pc |-> "refreshing"]]
     ELSE posts' = [posts EXCEPT ![t] = NoPost] /\ UNCHANGED gets
  /\ UNCHANGED <<access, tabs, submits, txns, jobs, agent>>

-----------------------------------------------------------------------------
(* The agent *)

Queued == {j \in jobs : j.status = "queued"}
WithStatus(j, to) == (jobs \ {j}) \cup {[j EXCEPT !.status = to]}

\* A poll that finds no job changes nothing and is left out.  The worker gives up
\* waiting for an answer, and then polls again.
SendClaim ==
  /\ sent < MaxClaims /\ Queued # {}
  /\ Trouble \/ 1..sent \subseteq ledger \ claiming
  /\ sent' = sent + 1
  /\ UNCHANGED <<access, browser, txns, jobs, ledger, claiming, leases>>

\* The mutation: the ledger is not asked.
AcceptAgain(n) ==
  /\ n \in 1..sent
  /\ ledger' = ledger \cup {n} /\ claiming' = claiming \cup {n}
  /\ UNCHANGED <<access, browser, txns, jobs, sent, leases>>

\* POST /api/agent/operations/claim: a claim may arrive again, and is refused then.
Accept(n) ==
  /\ n \in 1..sent /\ n \notin ledger
  /\ ledger' = ledger \cup {n} /\ claiming' = claiming \cup {n}
  /\ UNCHANGED <<access, browser, txns, jobs, sent, leases>>

\* claim_mc_main_operation_job
Claim(n) ==
  /\ n \in claiming
  /\ claiming' = claiming \ {n}
  /\ IF Queued = {} THEN UNCHANGED <<jobs, leases>>
     ELSE \E j \in Queued : /\ jobs' = WithStatus(j, "leased")
                            /\ leases' = [leases EXCEPT ![n] = @ + 1]
  /\ UNCHANGED <<access, browser, txns, sent, ledger>>

\* The request is accepted and its claim lost.
ClaimFails(n) ==
  /\ Trouble /\ n \in claiming
  /\ claiming' = claiming \ {n}
  /\ UNCHANGED <<access, browser, txns, jobs, sent, ledger, leases>>

\* The worker's transitions, and the expiry of what it abandons.
Report(j, to) ==
  /\ j \in jobs
  /\ <<j.status, to>> \in AllowedTransitions
  /\ j.status = "queued" => to = "expired" /\ Trouble
  /\ to \in {"running", "succeeded", "failed", "expired"}
  /\ jobs' = IF to \in ActiveStatus THEN WithStatus(j, to) ELSE jobs \ {j}
  /\ UNCHANGED <<access, browser, txns, agent>>

-----------------------------------------------------------------------------
(* The session *)

\* Revoked, or expired.
EndSession(s) ==
  /\ Trouble /\ s \in live
  /\ live' = live \ {s}
  /\ UNCHANGED <<presented, browser, txns, jobs, agent>>

\* Another user signs in, in another tab.
SignIn(s) ==
  /\ Trouble /\ s \in live /\ presented # s
  /\ presented' = s
  /\ UNCHANGED <<live, browser, txns, jobs, agent>>

SetVisible(t, v) ==
  /\ Trouble /\ tabs[t].open /\ tabs[t].visible # v
  /\ tabs' = [tabs EXCEPT ![t].visible = v]
  /\ UNCHANGED <<access, gets, posts, submits, txns, jobs, agent>>

-----------------------------------------------------------------------------
ConsoleNext ==
  \/ \E t \in Tab :
       \/ Open(t) \/ Interval(t) \/ Resolve(t) \/ Announce(t) \/ EnqueueTimesOut(t) \/ LosePost(t)
       \/ \E i \in 0..MaxPolls : AnswerGet(t, i) \/ Deliver(t, i) \/ LoseGet(t, i)
       \/ \E op \in LifecycleOps : Submit(t, op)
       \/ \E v \in BOOLEAN : SetVisible(t, v)
  \/ \E x \in txns : Begin(x) \/ Enqueue(x)
  \/ SendClaim
  \/ \E n \in 1..MaxClaims : Accept(n) \/ Claim(n) \/ ClaimFails(n)
  \/ \E j \in jobs, to \in Status : Report(j, to)
  \/ \E s \in Session : EndSession(s) \/ SignIn(s)

ConsoleSpec == ConsoleInit /\ [][ConsoleNext]_consoleVars

\* The interval runs, the API and the database go on, and a tab that asks again and
\* again gets an answer in the end.  Nobody has to press, sign in or end a job.
ConsoleFairness ==
  /\ \A t \in Tab :
       /\ WF_consoleVars(Interval(t)) /\ WF_consoleVars(Resolve(t)) /\ WF_consoleVars(Announce(t))
       /\ SF_consoleVars(\E i \in 0..MaxPolls : AnswerGet(t, i))
       /\ SF_consoleVars(\E i \in 0..MaxPolls : Deliver(t, i))
  /\ WF_consoleVars(\E x \in txns : Begin(x) \/ Enqueue(x))
FairConsoleSpec == ConsoleSpec /\ ConsoleFairness

-----------------------------------------------------------------------------
(* Properties *)

\* A claim leases at most one job, however often it arrives: a lease that no
\* worker asked for would keep everyone waiting until it expires
\* (accept_operation_agent_request).
LeasesWereAsked == \A n \in 1..MaxClaims : leases[n] <= 1

\* The panel of a tab in view offers its buttons again once the user has no active
\* job: no RPC that times out, no refresh that fails or is skipped, no list of another
\* session and no old list that overtakes a newer one leaves it waiting for a job
\* that is over (submit, refresh).
NothingToWaitFor(t) ==
  tabs[t].open /\ tabs[t].visible /\ presented \in live /\ ~ListsActive(presented)
=============================================================================
