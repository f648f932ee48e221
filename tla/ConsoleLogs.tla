---------------------------- MODULE ConsoleLogs ----------------------------
(***************************************************************************)
(* The console log stream: the reporter that tails the logs of a host, the *)
(* API and the RPC that store its reports, retention, and the Log Viewer   *)
(* that follows the stored rows by their ids.                              *)
(*                                                                         *)
(* The reporter keeps no cursor: the windows of its reports overlap, and   *)
(* the unique event id keeps a line from being stored twice.  The viewer   *)
(* does keep one, which is sound only if ids appear in their order.        *)
(***************************************************************************)
EXTENDS Integers, Sequences, FiniteSets, FiniteSetsExt

CONSTANTS
  None,
  Kinds,         \* what the host logs: "info", "error", or what the API refuses
  Session,       \* database sessions that run the ingest RPC
  ReportWindow,  \* IVRM_LOG_REPORT_WINDOW_SECONDS
  ReportMax,     \* MAX_ENTRIES of a report
  Skew,          \* MAX_CLOCK_SKEW_SECONDS
  RpcTimeout,    \* how long the web waits for the RPC, and the database for a statement
  RateGap,       \* the least distance of two accepted reports
  Retention,     \* how long rows and nonces are kept
  Ranges,        \* the periods the viewer offers
  InitialLimit,  \* rows the page loads
  PollLimit,     \* rows a poll returns
  MaxRendered,   \* MAX_RENDERED_ENTRIES
  MaxNow,        \* bound: the clock
  MaxLines,      \* bound: lines ever logged
  MaxReports,    \* bound: reports ever sent
  MaxLoads,      \* bound: page loads
  MaxAborts      \* bound: ingests cut off

ASSUME ConsoleLogsAssumption ==
  /\ None \notin Session /\ None \notin Nat
  /\ Kinds \subseteq {"info", "error", "unsound"}
  /\ \A c \in {ReportWindow, Skew, RpcTimeout, RateGap, Retention, MaxNow, MaxLines, MaxReports, MaxLoads, MaxAborts} :
       c \in Nat
  /\ \A c \in {ReportMax, InitialLimit, PollLimit, MaxRendered} : c \in Nat \ {0}
  /\ \A r \in Ranges : r \in 0..Retention
  \* 120, 300 and 10 seconds against 24 hours: the row of a line that a report
  \* can still bring has not been pruned.
  /\ ReportWindow + Skew + RpcTimeout <= Retention

VARIABLES
  now,     \* one clock for host, server and database
  logged,  \* the lines of the host's logs, in order
  net,     \* the reports ever sent: each arrives never, once or again
  sess,    \* what each database session is doing
  lock,    \* the session that holds the row of the host
  nextId,  \* the next value of the id sequence of console_log_entries
  rows,    \* console_log_entries
  nonces,  \* console_log_ingest_requests
  page,    \* the page the server has rendered and the browser not yet shown
  view,    \* the Log Viewer
  loads, aborts,
  ever     \* history: every row ever stored, for the properties only

host == <<logged, net>>
db == <<sess, lock, nextId, rows, nonces, aborts, ever>>
browser == <<page, view, loads>>
vars == <<now, host, db, browser>>

\* What the filters and the validations tell apart: two kinds of sound lines,
\* and one that the API refuses.
Filter == {"all", "error"}

Idle == [pc |-> "idle"]
Closed == [open |-> FALSE]

Init ==
  /\ now = 0
  /\ logged = <<>> /\ net = {}
  /\ sess = [s \in Session |-> Idle] /\ lock = None /\ nextId = 1
  /\ rows = {} /\ nonces = {} /\ ever = {}
  /\ page = None /\ view = Closed
  /\ loads = 0 /\ aborts = 0

Newest(S, n) == {r \in S : Cardinality({q \in S : q.id > r.id}) < n}
Oldest(S, n) == {r \in S : Cardinality({q \in S : q.id < r.id}) < n}

-----------------------------------------------------------------------------
(* The host *)

Log(k) ==
  /\ Len(logged) < MaxLines
  /\ logged' = Append(logged, [at |-> now, kind |-> k])
  /\ UNCHANGED <<now, net, db, browser>>

\* collect_entries: the newest lines of the window.
Collected ==
  LET recent == {l \in 1..Len(logged) : logged[l].at >= now - ReportWindow}
  IN {l \in recent : Cardinality({m \in recent : m > l}) < ReportMax}

\* main: one signed report with a nonce of its own.  Whatever becomes of it, the
\* next run starts afresh.
Report ==
  /\ Cardinality(net) < MaxReports
  /\ Collected # {}
  /\ net' = net \cup {[nonce |-> Cardinality(net), at |-> now, lines |-> Collected]}
  /\ UNCHANGED <<now, logged, db, browser>>

-----------------------------------------------------------------------------
(* POST /api/agent/logs and ingest_console_log_report_v1 *)

\* normalizeEntry: one entry that is not sound costs the whole report.
NormalizeEntry(l, at) ==
  /\ logged[l].kind # "unsound"
  /\ logged[l].at \in (at - Skew)..(at + Skew)

\* parseLogReport and authenticateLogReport, and once more the checks of the RPC.
Acceptable(r) ==
  /\ r.at \in (now - Skew)..(now + Skew)
  /\ \A l \in r.lines : NormalizeEntry(l, r.at)

\* A report that is not acceptable is answered with an error and leaves nothing.
Receive(s, r) ==
  /\ sess[s] = Idle
  /\ Acceptable(r)
  /\ sess' = [sess EXCEPT ![s] = [pc |-> "host", req |-> r, since |-> now]]
  /\ UNCHANGED <<now, host, lock, nextId, rows, nonces, aborts, ever, browser>>

RateLimited == \E n \in nonces : now - n.received < RateGap
Replayed(r) == \E n \in nonces : n.nonce = r.nonce

\* The rows to insert, in the order of the report.  The identity column counts
\* the rows that meet an event that is stored already, too.
NewRows(r) ==
  {[id |-> nextId + Cardinality({m \in r.lines : m < l}), line |-> l,
    at |-> logged[l].at, received |-> now] :
     l \in {l \in r.lines : \A q \in rows : q.line # l}}

\* The mutation: the row of the host is read without "for update".
IngestUnlocked(s) ==
  /\ sess[s].pc = "host"
  /\ ~RateLimited /\ ~Replayed(sess[s].req)
  /\ sess' = [sess EXCEPT ![s] = [pc |-> "insert", since |-> sess[s].since, new |-> NewRows(sess[s].req),
                                  nonce |-> [nonce |-> sess[s].req.nonce, received |-> now]]]
  /\ nextId' = nextId + Cardinality(sess[s].req.lines)
  /\ UNCHANGED <<now, host, lock, rows, nonces, aborts, ever, browser>>

\* select ... for update, the rate limit, the nonce and the inserts.
Ingest(s) ==
  /\ sess[s].pc = "host" /\ lock = None
  /\ IF RateLimited \/ Replayed(sess[s].req)
     THEN sess' = [sess EXCEPT ![s] = Idle] /\ UNCHANGED <<lock, nextId>>
     ELSE /\ lock' = s
          /\ sess' = [sess EXCEPT ![s] = [pc |-> "insert", since |-> sess[s].since, new |-> NewRows(sess[s].req),
                                          nonce |-> [nonce |-> sess[s].req.nonce, received |-> now]]]
          /\ nextId' = nextId + Cardinality(sess[s].req.lines)
  /\ UNCHANGED <<now, host, rows, nonces, aborts, ever, browser>>

\* The mutation: the retention counts the wrong unit.
ExpiredSoon(q) == q.received < now

Expired(q) == q.received < now - Retention
Kept(S) == {q \in S : ~Expired(q)}

\* The RPC prunes before it returns; what it did is seen when it commits.
Commit(s) ==
  /\ sess[s].pc = "insert"
  /\ rows' = Kept(rows \cup sess[s].new)
  /\ nonces' = Kept(nonces \cup {sess[s].nonce})
  /\ ever' = ever \cup sess[s].new
  /\ sess' = [sess EXCEPT ![s] = Idle]
  /\ lock' = IF lock = s THEN None ELSE lock
  /\ UNCHANGED <<now, host, nextId, aborts, browser>>

\* The session is lost, or the statement fails.
Abort(s) ==
  /\ sess[s] # Idle /\ aborts < MaxAborts
  /\ aborts' = aborts + 1
  /\ sess' = [sess EXCEPT ![s] = Idle]
  /\ lock' = IF lock = s THEN None ELSE lock
  /\ UNCHANGED <<now, host, nextId, rows, nonces, ever, browser>>

\* The hourly job.
Prune ==
  /\ Kept(rows) # rows \/ Kept(nonces) # nonces
  /\ rows' = Kept(rows) /\ nonces' = Kept(nonces)
  /\ UNCHANGED <<now, host, sess, lock, nextId, aborts, ever, browser>>

-----------------------------------------------------------------------------
(* The Log Viewer *)

Matches(f, q) == f = "all" \/ logged[q.line].kind = f

\* get_console_logs_v2 without its limit, for the rows after an id.
Readable(f, range, after) ==
  {q \in rows : /\ q.id > after
                /\ ~Expired(q)
                /\ q.at >= now - range
                /\ Matches(f, q)}

\* getConsoleLogs: without a cursor the latest rows, with one those that follow it.
GetConsoleLogs(f, range, after, limit) ==
  IF after = None THEN Newest(Readable(f, range, 0), limit)
                  ELSE Oldest(Readable(f, range, after), limit)

\* LogsPage: the latest rows, read on the server.
Load(f, range) ==
  /\ loads < MaxLoads
  /\ loads' = loads + 1
  /\ page' = [filter |-> f, range |-> range, at |-> now,
              rows |-> GetConsoleLogs(f, range, None, InitialLimit)]
  /\ UNCHANGED <<now, host, db, view>>

\* The read fails: the page says so and shows no viewer.
LoadFails ==
  /\ view.open
  /\ page' = None /\ view' = Closed
  /\ UNCHANGED <<now, host, db, loads>>

LastId(S, default) == IF S = {} THEN default ELSE Max({q.id : q \in S})

\* A fresh viewer.  The fields cut and floor are history: the last cutoff that was
\* applied, and the first row of the page when there may be older ones.
Fresh(p) ==
  [open |-> TRUE, filter |-> p.filter, range |-> p.range,
   entries |-> Newest(p.rows, MaxRendered),
   lastId |-> LastId(p.rows, 0), follow |-> TRUE, poll |-> None,
   cut |-> p.at - p.range,
   floor |-> IF Cardinality(p.rows) < InitialLimit THEN 0 ELSE Min({q.id : q \in p.rows})]

\* viewerKey is made of the filters: with other filters nothing of the viewer
\* before is left and its poll is aborted; with the same ones the viewer stays,
\* unless the whole page was loaded anew.
Mount ==
  /\ page # None
  /\ \/ view' = Fresh(page)
     \/ /\ view.open /\ view.filter = page.filter /\ view.range = page.range
        /\ view' = view
  /\ page' = None
  /\ UNCHANGED <<now, host, db, loads>>

Polling == view.open /\ view.poll # None

Poll ==
  /\ view.open /\ view.follow /\ view.poll = None
  /\ view' = [view EXCEPT !.poll = [after |-> view.lastId, rows |-> None, at |-> now]]
  /\ UNCHANGED <<now, host, db, page, loads>>

\* GET /api/logs reads the oldest rows after the cursor.
Answer ==
  /\ Polling /\ view.poll.rows = None
  /\ view' = [view EXCEPT !.poll.at = now,
                          !.poll.rows = GetConsoleLogs(view.filter, view.range, view.poll.after, PollLimit)]
  /\ UNCHANGED <<now, host, db, page, loads>>

\* The poll fails on its way: the next one asks for the same rows.
PollFails ==
  /\ Polling
  /\ view' = [view EXCEPT !.poll = None]
  /\ UNCHANGED <<now, host, db, page, loads>>

\* mergeEntries
Merged(current, incoming, cutoff) ==
  Newest({q \in current \cup incoming : q.at >= cutoff}, MaxRendered)

Bigger(a, b) == IF a > b THEN a ELSE b

Deliver ==
  /\ Polling /\ view.poll.rows # None
  /\ LET p == view.poll
         cutoff == p.at - view.range
     IN view' = [view EXCEPT !.poll = None,
                             !.lastId = Bigger(@, LastId(p.rows, p.after)),
                             !.entries = Merged(@, p.rows, cutoff),
                             !.cut = Bigger(@, cutoff)]
  /\ UNCHANGED <<now, host, db, page, loads>>

\* Follow is switched, or auto-scroll, which restarts the effect as well: the
\* poll under way is aborted.
Toggle(follow) ==
  /\ view.open
  /\ view' = [view EXCEPT !.follow = follow, !.poll = None]
  /\ UNCHANGED <<now, host, db, page, loads>>

-----------------------------------------------------------------------------
\* No call is left running for longer than its timeout.
Tick ==
  /\ now < MaxNow
  /\ \A s \in Session : sess[s] # Idle => now - sess[s].since < RpcTimeout
  /\ now' = now + 1
  /\ UNCHANGED <<host, db, browser>>

Next ==
  \/ Tick
  \/ \E k \in Kinds : Log(k)
  \/ Report
  \/ \E s \in Session : \/ \E r \in net : Receive(s, r)
                        \/ Ingest(s) \/ Commit(s) \/ Abort(s)
  \/ Prune
  \/ \E f \in Filter, r \in Ranges : Load(f, r)
  \/ LoadFails
  \/ Mount \/ Poll \/ Answer \/ PollFails \/ Deliver
  \/ \E f \in BOOLEAN : Toggle(f)

Spec == Init /\ [][Next]_vars

-----------------------------------------------------------------------------
(* Properties *)

\* A line is stored once, ever: overlapping reports, reports that arrive twice or
\* late, and the pruning of rows and nonces never store it again.
LineStoredOnce == \A q, r \in ever : q.line = r.line => q = r

\* Following misses nothing: up to the cursor, every row that was ever stored and
\* matches the filters is shown, but for those before the page's first row, those
\* older than the period, and those that enough newer ones have pushed out
\* (lastIdRef, get_console_logs_v2).
FollowMissesNothing ==
  view.open =>
    \A q \in ever :
      /\ Matches(view.filter, q)
      /\ q.id \in view.floor..view.lastId
      /\ q.at >= view.cut
      => \/ q \in view.entries
         \/ Cardinality({r \in ever : /\ Matches(view.filter, r)
                                      /\ r.id \in (q.id + 1)..view.lastId}) >= MaxRendered

\* The viewer shows stored lines that match the filters it shows, never what was
\* loaded or polled for earlier ones (viewerKey of LogsPage).
ShownLinesMatch ==
  view.open => \A q \in view.entries : q \in ever /\ Matches(view.filter, q)
=============================================================================
