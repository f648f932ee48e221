----------------------- MODULE JobTransactionsProofs -----------------------
(***************************************************************************)
(* Proofs about the operation job RPCs as concurrent transactions, for any *)
(* number of sessions, jobs, agents and audit rows.                        *)
(*                                                                         *)
(* Two arguments carry everything.  Whoever has appended audit rows, or    *)
(* has read the head of the chain to do so, holds the lock of the chain,   *)
(* so its rows continue the committed log.  Whoever has written a row      *)
(* holds its lock, so the committed row is still the one it changed.       *)
(***************************************************************************)
EXTENDS JobTransactions, FiniteSetTheorems, TLAPS

Row == [status : Status \cup {Null}, op : Op \cup {Null},
        owner : Owner \cup {Null}, expires : Nat]
Entry == [prev : Nat, hash : Nat]
Change == [job : Nat, row : Row]
Pc == {"idle", "scope_lock", "decide", "insert", "row_lock", "reap", "pick",
       "read_head", "append", "commit"}
Rpc == {"enqueue", "transition", "renew", "claim"}
Session == [pc : Pc, rpc : Rpc \cup {Null}, job : Nat, to : Status \cup {Null},
            by : ActorType \cup {Null}, o : Owner \cup {Null}, op : Op \cup {Null}, at : Nat, writes : SUBSET Change, owed : Int,
            logs : Seq(Entry), prev : Nat, next : {"commit", "pick"}]

\* What each variable holds.
TypeInv ==
  /\ now \in Nat /\ inserted \in Nat
  /\ jobs \in [Job -> Row]
  /\ log \in Seq(Entry) /\ nextId \in Nat \ {0} /\ head \in Nat
  /\ scopeLock \in [LockScope -> Tx \cup {Null}]
  /\ rowLock \in [Job -> Tx \cup {Null}]
  /\ chainLock \in Tx \cup {Null}
  /\ tx \in [Tx -> Session]

-----------------------------------------------------------------------------
(* The audit chain *)

\* The hash a sequence of audit rows ends with, when it follows a row with hash b.
LastHash(s, b) == IF Len(s) = 0 THEN b ELSE s[Len(s)].hash

\* The rows of s follow one another, and the first one follows hash b.
Follows(s, b) ==
  \A i \in 1..Len(s) : /\ s[i].prev = IF i = 1 THEN b ELSE s[i - 1].hash
                       /\ s[i].prev < s[i].hash

\* The rows of a session follow the committed log, and it holds the chain as soon
\* as it has appended one or read the head.
ChainSession(t) ==
  /\ Follows(tx[t].logs, head)
  /\ LastHash(tx[t].logs, head) < nextId
  /\ Len(tx[t].logs) # 0 => chainLock = t
  /\ At(t, "append") => chainLock = t /\ tx[t].prev = HeadOf(t)

ChainInv ==
  /\ Follows(log, 0)
  /\ head = LastHash(log, 0)
  /\ head < nextId
  /\ \A t \in Tx : ChainSession(t)

-----------------------------------------------------------------------------
(* The rows *)

\* What a commit may make of a committed row (the two parts of CommitsAreLegal).
Legal(r, s) ==
  /\ s.status # r.status /\ r.status # Null => <<r.status, s.status>> \in AllowedTransitions
  /\ r.owner # Null /\ IsActive(s) => s.owner \in {r.owner, Null}

\* A row that nobody works on has no owner.
Unowned(r) == r.status \in {"queued", Null} => r.owner = Null

RowSession(t) ==
  /\ \A w \in tx[t].writes :
       /\ Unowned(w.row)
       /\ w.job \in Job => rowLock[w.job] = t /\ Legal(jobs[w.job], w.row)
  /\ tx[t].pc \in {"idle", "scope_lock", "decide", "insert", "row_lock", "reap"} => tx[t].writes = {}
  /\ At(t, "row_lock") => tx[t].job \in Job
  /\ At(t, "pick") => tx[t].next = "pick"
  \* Before it picks, a claim has written no rows but those it has expired.
  /\ tx[t].next = "pick" => \A w \in tx[t].writes : w.row.status = "expired"

RowInv ==
  /\ \A j \in Job : Unowned(jobs[j])
  /\ \A j \in Job : j > inserted => jobs[j] = NoRow /\ rowLock[j] = Null
  /\ \A t \in Tx : RowSession(t)

-----------------------------------------------------------------------------
(* Types *)

USE TransactionsAssumption DEF Job

LEMMA IdleType == Idle \in Session
BY DEF Idle, Session, Pc

LEMMA NoRowType == NoRow \in Row
BY DEF NoRow, Row, NoLease

\* The rows the statements write are rows.
LEMMA TransitionRow ==
  ASSUME NEW r \in Row, NEW to, NEW by, NEW o \in Owner \cup {Null}, NEW t \in Nat, NEW e \in Nat,
         MayTransition(r, to, by, o, t)
  PROVE  /\ AfterTransition(r, to, o, e) \in Row
         /\ Unowned(r) => Legal(r, AfterTransition(r, to, o, e)) /\ Unowned(AfterTransition(r, to, o, e))
         /\ r.status # Null
BY DEF Row, MayTransition, AfterTransition, Legal, Unowned, AllowedTransitions, Status, IsActive,
       ActiveStatus, TerminalStatus, NoLease, Null

LEMMA RenewRow ==
  ASSUME NEW r \in Row, NEW e \in Nat, IsHeld(r)
  PROVE  /\ AfterRenew(r, e) \in Row
         /\ Legal(r, AfterRenew(r, e)) /\ Unowned(AfterRenew(r, e))
         /\ r.status # Null
BY DEF Row, AfterRenew, Legal, Unowned, IsHeld, HeldStatus, Null

LEMMA ReapRow ==
  ASSUME NEW r \in Row, NEW t \in Nat, Stale(r, t)
  PROVE  /\ AfterReap(r, t) \in Row
         /\ Legal(r, AfterReap(r, t)) /\ Unowned(AfterReap(r, t))
         /\ AfterReap(r, t).status = "expired" /\ r.status # Null
BY DEF Row, AfterReap, AfterTransition, AllowedTransitions, Status, Stale, Legal, Unowned, IsActive,
       ActiveStatus, TerminalStatus, NoLease, IsHeld, HeldStatus, Null

LEMMA InsertedRow ==
  ASSUME NEW op \in Op \cup {Null}
  PROVE  /\ [NoRow EXCEPT !.status = "queued", !.op = op] \in Row
         /\ Unowned([NoRow EXCEPT !.status = "queued", !.op = op])
         /\ Legal(NoRow, [NoRow EXCEPT !.status = "queued", !.op = op])
BY DEF NoRow, Row, Status, ActiveStatus, Unowned, Legal, NoLease

LEMMA ViewType ==
  ASSUME TypeInv, NEW t \in Tx, NEW j \in Job
  PROVE  View(t, j) \in Row
<1>1. tx[t].writes \subseteq Change /\ jobs[j] \in Row
  BY DEF TypeInv, Session
<1>2. QED BY <1>1 DEF View, Change

\* A statement that writes the rows W and owes their audit rows.
Written(t, W) == {w \in tx[t].writes : \A v \in W : v.job # w.job} \cup W

LEMMA OwingFacts ==
  ASSUME TypeInv, NEW t \in Tx, NEW W \in SUBSET Change, NEW pc \in {"commit", "pick"},
         Owing(t, W, pc), Cardinality(W) \in Nat
  PROVE  /\ tx' \in [Tx -> Session] /\ \A u \in Tx \ {t} : tx'[u] = tx[u]
         /\ tx'[t].writes = Written(t, W) /\ tx'[t].next = pc
         /\ tx'[t].pc \in {pc, "read_head"} /\ tx'[t].logs = tx[t].logs
<1>1. tx[t] \in Session
  BY DEF TypeInv
<1> DEFINE V == Written(t, W)
           p == IF W = {} THEN pc ELSE "read_head"
           n == Cardinality(W)
           c == [tx[t] EXCEPT !.pc = p, !.writes = V, !.owed = n, !.next = pc]
<1>2. V \in SUBSET Change
  BY <1>1 DEF Session, Written
<1>3. p \in Pc /\ p \in {pc, "read_head"} /\ n \in Int
  BY DEF Pc
<1>4. tx' = [tx EXCEPT ![t] = c]
  BY DEF Owing, TypeInv, Written
<1> HIDE DEF V, p, n
<1>5. /\ c \in Session /\ c.pc = p /\ c.writes = V /\ c.next = pc /\ c.logs = tx[t].logs
  BY <1>1, <1>2, <1>3 DEF Session
<1> HIDE DEF c
<1>6. tx'[t] = c /\ tx' \in [Tx -> Session] /\ \A u \in Tx \ {t} : tx'[u] = tx[u]
  BY <1>4, <1>5 DEF TypeInv
<1>7. QED BY <1>3, <1>5, <1>6 DEF V

\* The selects of a claim write finitely many rows.
LEMMA SeizedRows ==
  ASSUME NEW S \in SUBSET Job, NEW f
  PROVE  Cardinality({Write(j, f[j]) : j \in S}) \in Nat
<1> DEFINE W == {Write(j, f[j]) : j \in S}
           g == [j \in S |-> Write(j, f[j])]
<1>1. IsFiniteSet(S)
  <2>1. IsFiniteSet(1..MaxJobs)
    BY FS_Interval
  <2>2. QED BY <2>1, FS_Subset
<1>2. g \in Surjection(S, W)
  BY DEF Surjection
<1> HIDE DEF W, g
<1>3. QED BY <1>1, <1>2, FS_Surjection, FS_CardinalityType DEF W

-----------------------------------------------------------------------------
(* What the steps of a session t leave alone *)

Others(t) == \A u \in Tx \ {t} : tx'[u] = tx[u]

\* A step that appends no audit row and does not read the head of the chain.
Quiet(t) ==
  /\ UNCHANGED <<log, head, nextId>>
  /\ Others(t)
  /\ tx'[t].pc # "append"
  /\ \/ tx'[t].logs = tx[t].logs /\ chainLock' = chainLock
     \/ /\ tx'[t].logs = <<>>
        /\ chainLock' = chainLock \/ (chainLock = t /\ chainLock' = Null)

\* A step that writes no row.
Bare(t) ==
  /\ UNCHANGED <<jobs, inserted, rowLock>>
  /\ Others(t)
  /\ tx'[t].writes = {}
  /\ tx'[t].pc = "row_lock" => tx'[t].job \in Job
  /\ tx'[t].pc # "pick"

\* A step that ends the session without a trace.
Ends(t) ==
  /\ UNCHANGED <<jobs, inserted>>
  /\ tx' = [tx EXCEPT ![t] = Idle]
  /\ rowLock' = Without(rowLock, t)

LEMMA IdleFacts ==
  /\ Idle \in Session /\ Idle.logs = <<>> /\ Idle.writes = {} /\ Idle.pc = "idle"
  /\ Idle.next = "commit"
BY DEF Idle, Session, Pc

\* The session that begins an RPC.
LEMMA BeginStep ==
  ASSUME TypeInv, NEW t \in Tx, NEW c \in Session, Begin(t, c),
         c.logs = <<>>, c.writes = {}, c.pc \notin {"append", "pick"}, c.next = "commit",
         c.pc = "row_lock" => c.job \in Job
  PROVE  TypeInv' /\ Quiet(t) /\ Bare(t)
<1>1. tx' = [tx EXCEPT ![t] = c]
      /\ UNCHANGED <<now, inserted, jobs, log, nextId, head, scopeLock, rowLock, chainLock, aborts>>
  BY DEF Begin
<1>2. tx' \in [Tx -> Session] /\ tx'[t] = c /\ Others(t)
  BY <1>1 DEF TypeInv, Others
<1>3. TypeInv'
  BY <1>1, <1>2 DEF TypeInv
<1>4. QED BY <1>1, <1>2, <1>3 DEF Quiet, Bare

LEMMA StartStep ==
  ASSUME TypeInv, NEW t \in Tx, Start(t)
  PROVE  TypeInv' /\ Quiet(t) /\ Bare(t)
<1> DEFINE Goal == TypeInv' /\ Quiet(t) /\ Bare(t)
<1>1. ASSUME NEW op \in Op, BeginEnqueue(t, op) PROVE Goal
  <2> DEFINE c == [Idle EXCEPT !.pc = "scope_lock", !.rpc = "enqueue", !.op = op]
  <2>1. /\ c \in Session /\ c.logs = <<>> /\ c.writes = {} /\ c.pc = "scope_lock" /\ c.next = "commit"
    BY IdleFacts DEF Session, Pc, Rpc
  <2>2. Begin(t, c)
    BY <1>1 DEF BeginEnqueue
  <2> HIDE DEF c
  <2>3. QED BY <2>1, <2>2, BeginStep
<1>2. ASSUME BeginDenied(t) PROVE Goal
  <2> DEFINE c == [Idle EXCEPT !.pc = "read_head", !.rpc = "enqueue", !.owed = 1]
  <2>0. "read_head" \in Pc /\ "enqueue" \in Rpc /\ 1 \in Int
    BY DEF Pc, Rpc
  <2>1. /\ c \in Session /\ c.logs = <<>> /\ c.writes = {} /\ c.pc = "read_head" /\ c.next = "commit"
    BY <2>0, IdleFacts DEF Session
  <2>2. Begin(t, c)
    BY <1>2 DEF BeginDenied
  <2> HIDE DEF c
  <2>3. QED BY <2>1, <2>2, BeginStep
<1>3. ASSUME NEW j \in Job, NEW to \in Status, NEW by \in ActorType, NEW o \in Owner \cup {Null},
             BeginTransition(t, j, to, by, o)
      PROVE  Goal
  <2> DEFINE c == [Idle EXCEPT !.pc = "row_lock", !.rpc = "transition", !.job = j,
                               !.to = to, !.by = by, !.o = o, !.at = now]
  <2>0. "row_lock" \in Pc /\ "transition" \in Rpc /\ j \in Nat /\ now \in Nat
    BY DEF Pc, Rpc, TypeInv
  <2>1. /\ c \in Session /\ c.logs = <<>> /\ c.writes = {} /\ c.pc = "row_lock" /\ c.next = "commit"
        /\ c.job = j
    BY <2>0, IdleFacts DEF Session
  <2>2. Begin(t, c)
    BY <1>3 DEF BeginTransition
  <2> HIDE DEF c
  <2>3. QED BY <2>1, <2>2, BeginStep
<1>4. ASSUME NEW j \in Job, NEW o \in Owner, BeginRenew(t, j, o) PROVE Goal
  <2> DEFINE c == [Idle EXCEPT !.pc = "row_lock", !.rpc = "renew", !.job = j, !.o = o, !.at = now]
  <2>0. "row_lock" \in Pc /\ "renew" \in Rpc /\ j \in Nat /\ now \in Nat
    BY DEF Pc, Rpc, TypeInv
  <2>1. /\ c \in Session /\ c.logs = <<>> /\ c.writes = {} /\ c.pc = "row_lock" /\ c.next = "commit"
        /\ c.job = j
    BY <2>0, IdleFacts DEF Session
  <2>2. Begin(t, c)
    BY <1>4 DEF BeginRenew
  <2> HIDE DEF c
  <2>3. QED BY <2>1, <2>2, BeginStep
<1>5. ASSUME NEW o \in Owner, BeginClaim(t, o) PROVE Goal
  <2> DEFINE c == [Idle EXCEPT !.pc = "reap", !.rpc = "claim", !.o = o]
  <2>1. /\ c \in Session /\ c.logs = <<>> /\ c.writes = {} /\ c.pc = "reap" /\ c.next = "commit"
    BY IdleFacts DEF Session, Pc, Rpc
  <2>2. Begin(t, c)
    BY <1>5 DEF BeginClaim
  <2> HIDE DEF c
  <2>3. QED BY <2>1, <2>2, BeginStep
<1>6. /\ {"leased", "running", "queued", "succeeded", "failed", "cancelled"} \subseteq Status
      /\ {"agent", "console_user", "system"} \subseteq ActorType
  BY DEF Status, ActiveStatus, TerminalStatus, ActorType
<1> HIDE DEF Goal
<1>7. Goal
  BY <1>1, <1>2, <1>3, <1>4, <1>5, <1>6 DEF Start
<1>8. QED BY <1>7 DEF Goal

LEMMA EndStep ==
  ASSUME TypeInv, NEW t \in Tx, Rollback(t)
  PROVE  TypeInv' /\ Quiet(t) /\ Ends(t)
<1>1. /\ tx' = [tx EXCEPT ![t] = Idle] /\ tx'[t] = Idle /\ Others(t)
      /\ UNCHANGED <<now, inserted, jobs, log, nextId, head>>
      /\ rowLock' = Without(rowLock, t) /\ scopeLock' = Without(scopeLock, t)
      /\ chainLock' = IF chainLock = t THEN Null ELSE chainLock
  BY DEF Rollback, Release, TypeInv, Others
<1>2. rowLock' \in [Job -> Tx \cup {Null}] /\ scopeLock' \in [LockScope -> Tx \cup {Null}]
  BY <1>1 DEF Without, TypeInv
<1>3. TypeInv'
  BY <1>1, <1>2, IdleFacts DEF TypeInv
<1>4. QED BY <1>1, <1>3, IdleFacts DEF Quiet, Ends

\* A step that only moves the program counter, and may take a scope lock.
LEMMA MoveStep ==
  ASSUME TypeInv, NEW t \in Tx, NEW p \in Pc \ {"append", "pick", "row_lock"}, NEW n \in Int,
         \/ tx' = [tx EXCEPT ![t].pc = p]
         \/ tx' = [tx EXCEPT ![t].pc = p, ![t].owed = n],
         scopeLock' \in [LockScope -> Tx \cup {Null}],
         UNCHANGED <<now, inserted, jobs, log, nextId, head, rowLock, chainLock>>,
         tx[t].writes = {}
  PROVE  TypeInv' /\ Quiet(t) /\ Bare(t)
<1>1. tx[t] \in Session
  BY DEF TypeInv
<1>2. PICK c \in Session : /\ tx' = [tx EXCEPT ![t] = c]
                           /\ c.pc = p /\ c.logs = tx[t].logs /\ c.writes = {}
  <2>1. CASE tx' = [tx EXCEPT ![t].pc = p]
    <3>1. [tx[t] EXCEPT !.pc = p] \in Session
      BY <1>1 DEF Session
    <3>2. QED BY <1>1, <2>1, <3>1 DEF Session
  <2>2. CASE tx' = [tx EXCEPT ![t].pc = p, ![t].owed = n]
    <3>1. [tx[t] EXCEPT !.pc = p, !.owed = n] \in Session
      BY <1>1 DEF Session
    <3>2. QED BY <1>1, <2>2, <3>1 DEF Session, TypeInv
  <2>3. QED BY <2>1, <2>2
<1>3. tx' \in [Tx -> Session] /\ tx'[t] = c /\ Others(t)
  BY <1>2 DEF TypeInv, Others
<1>4. TypeInv'
  BY <1>3 DEF TypeInv
<1>5. QED BY <1>2, <1>3, <1>4 DEF Quiet, Bare

LEMMA DecideStep ==
  ASSUME TypeInv, RowInv, NEW t \in Tx,
         TakeScopeLock(t) \/ DecideReplay(t) \/ DecideConflict(t) \/ DecideFree(t)
  PROVE  TypeInv' /\ Quiet(t) /\ Bare(t)
<1>1. tx[t].writes = {}
  BY DEF TakeScopeLock, DecideReplay, DecideConflict, DecideFree, RowInv, RowSession, At
<1>2. scopeLock' \in [LockScope -> Tx \cup {Null}]
  BY DEF TakeScopeLock, DecideReplay, DecideConflict, DecideFree, TypeInv
<1>3. UNCHANGED <<now, inserted, jobs, log, nextId, head, rowLock, chainLock>>
  BY DEF TakeScopeLock, DecideReplay, DecideConflict, DecideFree
<1>4. \E p \in {"decide", "read_head", "commit", "insert"} :
         tx' = [tx EXCEPT ![t].pc = p] \/ tx' = [tx EXCEPT ![t].pc = p, ![t].owed = 1]
  BY DEF TakeScopeLock, DecideReplay, DecideConflict, DecideFree, Goto
<1>5. {"decide", "read_head", "commit", "insert"} \subseteq Pc \ {"append", "pick", "row_lock"}
  BY DEF Pc
<1>6. QED BY <1>1, <1>2, <1>3, <1>4, <1>5, MoveStep

\* A step of t that writes the rows W, each free or its own, and goes on to pc.
Writes(t, W, pc) ==
  /\ UNCHANGED jobs
  /\ inserted' \in Nat /\ inserted <= inserted'
  /\ Others(t)
  /\ tx'[t].writes = Written(t, W)
  /\ tx'[t].next = pc /\ tx'[t].pc \in {pc, "read_head"}
  /\ \A j \in Job : rowLock'[j] = IF \E w \in W : w.job = j THEN t ELSE rowLock[j]
  /\ \A w \in W : /\ Unowned(w.row)
                  /\ w.job <= inserted'
                  /\ w.job \in Job => FreeFor(rowLock[w.job], t) /\ Legal(jobs[w.job], w.row)
  /\ pc = "pick" => tx[t].writes = {} /\ \A w \in W : w.row.status = "expired"

LEMMA OwingStep ==
  ASSUME TypeInv, NEW t \in Tx, NEW W \in SUBSET Change, NEW pc \in {"commit", "pick"},
         Owing(t, W, pc), Cardinality(W) \in Nat,
         inserted' \in Nat, rowLock' \in [Job -> Tx \cup {Null}],
         UNCHANGED <<now, jobs, log, nextId, head, scopeLock, chainLock>>
  PROVE  /\ TypeInv' /\ Quiet(t) /\ Others(t)
         /\ tx'[t].writes = Written(t, W)
         /\ tx'[t].next = pc /\ tx'[t].pc \in {pc, "read_head"}
<1>1. /\ tx' \in [Tx -> Session] /\ Others(t)
      /\ tx'[t].writes = Written(t, W) /\ tx'[t].next = pc
      /\ tx'[t].pc \in {pc, "read_head"} /\ tx'[t].logs = tx[t].logs
  BY OwingFacts DEF Others
<1>2. TypeInv'
  BY <1>1 DEF TypeInv
<1>3. QED BY <1>1, <1>2 DEF Quiet

\* A row with a status has been inserted.
LEMMA Inserted ==
  ASSUME TypeInv, RowInv, NEW j \in Job, jobs[j].status # Null
  PROVE  j <= inserted
BY DEF TypeInv, RowInv, NoRow

LEMMA InsertStep ==
  ASSUME TypeInv, RowInv, NEW t \in Tx, InsertJob(t)
  PROVE  TypeInv' /\ Quiet(t) /\ (Ends(t) \/ \E W : Writes(t, W, "commit"))
<1>1. CASE InTheWay(t)
  BY <1>1, EndStep DEF InsertJob
<1>2. CASE ~InTheWay(t)
  <2> DEFINE r == [NoRow EXCEPT !.status = "queued", !.op = tx[t].op]
             W == {Write(inserted + 1, r)}
  <2>1. /\ Owing(t, W, "commit") /\ inserted' = inserted + 1
        /\ rowLock' = [rowLock EXCEPT ![inserted + 1] = t]
        /\ UNCHANGED <<now, jobs, log, nextId, head, scopeLock, chainLock>>
    BY <1>2 DEF InsertJob
  <2>2. tx[t].op \in Op \cup {Null} /\ inserted \in Nat
    BY DEF TypeInv, Session
  <2>3. r \in Row /\ Unowned(r) /\ Legal(NoRow, r)
    BY <2>2, InsertedRow
  <2> HIDE DEF r
  <2>4. W \in SUBSET Change /\ Cardinality(W) \in Nat
    <3>1. Write(inserted + 1, r) \in Change
      BY <2>2, <2>3 DEF Change, Write
    <3>2. Cardinality(W) = 1
      BY FS_Singleton
    <3>3. QED BY <3>1, <3>2
  <2>5. inserted' \in Nat /\ rowLock' \in [Job -> Tx \cup {Null}]
    <3>1. rowLock' = [j \in Job |-> IF j = inserted + 1 THEN t ELSE rowLock[j]]
      BY <2>1, Zenon DEF TypeInv
    <3>2. \A j \in Job : rowLock[j] \in Tx \cup {Null}
      BY DEF TypeInv
    <3>3. rowLock' \in [Job -> Tx \cup {Null}]
      BY <3>1, <3>2, Zenon
    <3>4. QED BY <2>1, <2>2, <3>3
  <2>6. \A w \in W : w.job = inserted + 1 /\ w.row = r
    BY DEF Write
  <2>7. \A j \in Job : (\E w \in W : w.job = j) <=> j = inserted + 1
    BY <2>6 DEF Write
  <2> HIDE DEF W
  <2>8. /\ TypeInv' /\ Quiet(t) /\ Others(t) /\ tx'[t].writes = Written(t, W)
        /\ tx'[t].next = "commit" /\ tx'[t].pc \in {"commit", "read_head"}
    BY <2>1, <2>4, <2>5, OwingStep
  <2>9. inserted + 1 \in Job => rowLock[inserted + 1] = Null /\ jobs[inserted + 1] = NoRow
    BY <2>2 DEF RowInv
  <2>10. \A j \in Job : rowLock'[j] = IF \E w \in W : w.job = j THEN t ELSE rowLock[j]
    BY <2>1, <2>7 DEF TypeInv
  <2>11. \A w \in W : /\ Unowned(w.row)
                      /\ w.job <= inserted'
                      /\ w.job \in Job => FreeFor(rowLock[w.job], t) /\ Legal(jobs[w.job], w.row)
    BY <2>1, <2>2, <2>3, <2>6, <2>9 DEF FreeFor
  <2>12. UNCHANGED jobs /\ inserted' \in Nat /\ inserted <= inserted'
    BY <2>1, <2>2
  <2>13. Writes(t, W, "commit")
    BY <2>8, <2>10, <2>11, <2>12 DEF Writes
  <2>14. QED BY <2>8, <2>13
<1>3. QED BY <1>1, <1>2

\* The rows W, which exist, are locked and written.
LEMMA SeizeStep ==
  ASSUME TypeInv, RowInv, NEW t \in Tx, NEW W \in SUBSET Change, NEW pc \in {"commit", "pick"},
         Owing(t, W, pc), Cardinality(W) \in Nat,
         rowLock' = [j \in Job |-> IF \E w \in W : w.job = j THEN t ELSE rowLock[j]],
         UNCHANGED <<now, inserted, jobs, log, nextId, head, scopeLock, chainLock>>,
         \A w \in W : /\ w.job \in Job /\ jobs[w.job].status # Null
                      /\ FreeFor(rowLock[w.job], t)
                      /\ Unowned(w.row) /\ Legal(jobs[w.job], w.row),
         pc = "pick" => tx[t].writes = {} /\ \A w \in W : w.row.status = "expired"
  PROVE  TypeInv' /\ Quiet(t) /\ Writes(t, W, pc)
<1>1. rowLock' \in [Job -> Tx \cup {Null}] /\ inserted' \in Nat /\ inserted \in Nat
  BY DEF TypeInv
<1>2. /\ TypeInv' /\ Quiet(t) /\ Others(t)
      /\ tx'[t].writes = Written(t, W)
      /\ tx'[t].next = pc /\ tx'[t].pc \in {pc, "read_head"}
  BY <1>1, OwingStep
<1>3. \A w \in W : w.job <= inserted'
  BY Inserted
<1>4. \A j \in Job : rowLock'[j] = IF \E w \in W : w.job = j THEN t ELSE rowLock[j]
  OBVIOUS
<1>5. QED BY <1>1, <1>2, <1>3, <1>4 DEF Writes

LEMMA LockRowStep ==
  ASSUME TypeInv, RowInv, NEW t \in Tx, LockRow(t)
  PROVE  TypeInv' /\ Quiet(t) /\ (Ends(t) \/ \E W : Writes(t, W, "commit"))
<1> DEFINE j == tx[t].job
           row == jobs[j]
           c == tx[t]
           legal == IF c.rpc = "renew" THEN MayRenew(row, c.o, c.at)
                                       ELSE MayTransition(row, c.to, c.by, c.o, c.at)
           after == IF c.rpc = "renew" THEN AfterRenew(row, c.at + Lease)
                                       ELSE AfterTransition(row, c.to, c.o, c.at + Lease)
           W == {Write(j, after)}
<1>1. CASE ~legal
  <2>1. Rollback(t)
    BY <1>1 DEF LockRow, ChangeRow
  <2>2. QED BY <2>1, EndStep
<1>2. CASE legal
  <2>1. /\ rowLock' = [rowLock EXCEPT ![j] = t] /\ Owing(t, W, "commit")
        /\ UNCHANGED <<now, inserted, jobs, log, nextId, head, scopeLock, chainLock>>
        /\ FreeFor(rowLock[j], t) /\ At(t, "row_lock")
    BY <1>2 DEF LockRow, ChangeRow
  <2>2. /\ j \in Job /\ j \in Nat /\ row \in Row /\ Unowned(row)
        /\ c.o \in Owner \cup {Null} /\ c.at \in Nat /\ c.at + Lease \in Nat
    <3>1. j \in Job
      BY <2>1 DEF RowInv, RowSession
    <3>2. QED BY <3>1 DEF RowInv, TypeInv, Session
  <2>3. after \in Row /\ Legal(row, after) /\ Unowned(after) /\ row.status # Null
    <3>1. CASE c.rpc = "renew"
      <4>1. IsHeld(row)
        BY <1>2, <3>1 DEF MayRenew
      <4>2. QED BY <2>2, <3>1, <4>1, RenewRow
    <3>2. CASE c.rpc # "renew"
      <4>1. MayTransition(row, c.to, c.by, c.o, c.at)
        BY <1>2, <3>2
      <4>2. QED BY <2>2, <3>2, <4>1, TransitionRow
    <3>3. QED BY <3>1, <3>2
  <2> HIDE DEF after, legal
  <2>4. W \in SUBSET Change /\ Cardinality(W) \in Nat
    <3>1. Write(j, after) \in Change
      BY <2>2, <2>3 DEF Change, Write
    <3>2. Cardinality(W) = 1
      BY FS_Singleton
    <3>3. QED BY <3>1, <3>2
  <2>5. /\ \A w \in W : w.job = j /\ w.row = after
        /\ \A i \in Job : (\E w \in W : w.job = i) <=> i = j
    BY DEF Write
  <2> HIDE DEF W
  <2>6. rowLock' = [i \in Job |-> IF \E w \in W : w.job = i THEN t ELSE rowLock[i]]
    BY <2>1, <2>2, <2>5 DEF TypeInv
  <2>7. TypeInv' /\ Quiet(t) /\ Writes(t, W, "commit")
    <3>1. \A w \in W : /\ w.job \in Job /\ jobs[w.job].status # Null
                       /\ FreeFor(rowLock[w.job], t)
                       /\ Unowned(w.row) /\ Legal(jobs[w.job], w.row)
      BY <2>1, <2>2, <2>3, <2>5
    <3>2. QED BY <2>1, <2>4, <2>6, <3>1, SeizeStep
  <2>8. QED BY <2>7
<1>3. QED BY <1>1, <1>2

LEMMA ReapStep ==
  ASSUME TypeInv, RowInv, NEW t \in Tx, ReapStale(t)
  PROVE  TypeInv' /\ Quiet(t) /\ \E W : Writes(t, W, "pick")
<1> DEFINE S == {j \in Job : Stale(jobs[j], now) /\ FreeFor(rowLock[j], t)}
           f == [j \in Job |-> AfterReap(jobs[j], now)]
           W == {Write(j, AfterReap(jobs[j], now)) : j \in S}
<1>1. Seize(t, W, "pick") /\ tx[t].writes = {}
  BY DEF ReapStale, RowInv, RowSession, At
<1>2. W \in SUBSET Change /\ Cardinality(W) \in Nat
  <2>1. W = {Write(j, f[j]) : j \in S}
    OBVIOUS
  <2>2. S \in SUBSET Job
    OBVIOUS
  <2>3. Cardinality(W) \in Nat
    BY <2>1, <2>2, SeizedRows
  <2>4. ASSUME NEW j \in S PROVE Write(j, AfterReap(jobs[j], now)) \in Change
    BY ReapRow DEF Change, Write, TypeInv
  <2>5. QED BY <2>3, <2>4
<1>3. \A w \in W : /\ w.job \in Job /\ jobs[w.job].status # Null
                   /\ FreeFor(rowLock[w.job], t)
                   /\ Unowned(w.row) /\ Legal(jobs[w.job], w.row)
                   /\ w.row.status = "expired"
  <2>1. ASSUME NEW w \in W
        PROVE  /\ w.job \in Job /\ jobs[w.job].status # Null
               /\ FreeFor(rowLock[w.job], t)
               /\ Unowned(w.row) /\ Legal(jobs[w.job], w.row)
               /\ w.row.status = "expired"
    <3>1. PICK j \in S : w.job = j /\ w.row = AfterReap(jobs[j], now)
      BY DEF Write
    <3>2. jobs[j] \in Row /\ now \in Nat
      BY DEF TypeInv
    <3>3. QED BY <3>1, <3>2, ReapRow
  <2>2. QED BY <2>1
<1> HIDE DEF W
<1>4. TypeInv' /\ Quiet(t) /\ Writes(t, W, "pick")
  BY <1>1, <1>2, <1>3, SeizeStep DEF Seize
<1>5. QED BY <1>4

\* A job that a claim may hand out is one it has not written itself, since what it
\* wrote has expired.
LEMMA PickedFacts ==
  ASSUME TypeInv, RowInv, NEW t \in Tx, At(t, "pick"), NEW j \in Picked(t)
  PROVE  /\ j \in Job /\ FreeFor(rowLock[j], t) /\ View(t, j) = jobs[j]
         /\ \/ IsHeld(jobs[j])
            \/ jobs[j].status = "queued"
<1>1. j \in Job /\ FreeFor(rowLock[j], t) /\ j \in Mine(t) \cup Waiting(t)
  BY DEF Picked, Oldest, Unlocked, Mine, Waiting
<1>2. IsHeld(View(t, j)) \/ View(t, j).status = "queued"
  BY <1>1 DEF Mine, Waiting, MayRenew
<1>3. View(t, j).status # "expired"
  BY <1>2 DEF IsHeld, HeldStatus
<1>4. \A w \in tx[t].writes : w.row.status = "expired"
  BY DEF RowInv, RowSession
<1>5. View(t, j) = jobs[j]
  BY <1>3, <1>4 DEF View
<1>6. QED BY <1>1, <1>2, <1>5

LEMMA PickStep ==
  ASSUME TypeInv, RowInv, NEW t \in Tx, Pick(t)
  PROVE  TypeInv' /\ Quiet(t) /\ \E W : Writes(t, W, "commit")
<1> DEFINE f == [j \in Job |-> Handed(t, j)]
           W == {Write(j, Handed(t, j)) : j \in Picked(t)}
<1>1. Seize(t, W, "commit") /\ At(t, "pick")
  BY DEF Pick
<1>2. ASSUME NEW j \in Picked(t)
      PROVE  /\ j \in Job /\ jobs[j].status # Null /\ FreeFor(rowLock[j], t)
             /\ Handed(t, j) \in Row /\ Unowned(Handed(t, j)) /\ Legal(jobs[j], Handed(t, j))
  <2>1. /\ j \in Job /\ FreeFor(rowLock[j], t) /\ View(t, j) = jobs[j]
        /\ IsHeld(jobs[j]) \/ jobs[j].status = "queued"
    BY <1>1, PickedFacts
  <2>2. jobs[j] \in Row /\ Unowned(jobs[j]) /\ now + Lease \in Nat /\ now \in Nat
    BY <2>1 DEF TypeInv, RowInv
  <2>3. CASE IsHeld(jobs[j])
    <3>1. Handed(t, j) = AfterRenew(jobs[j], now + Lease)
      BY <2>1, <2>3 DEF Handed
    <3>2. QED BY <2>1, <2>2, <2>3, <3>1, RenewRow
  <2>4. CASE ~IsHeld(jobs[j])
    <3>1. /\ Handed(t, j) = AfterTransition(jobs[j], "leased", tx[t].o, now + Lease)
          /\ MayTransition(jobs[j], "leased", "agent", tx[t].o, now)
      BY <2>1, <2>4 DEF Handed, MayTransition, AllowedTransitions
    <3>2. tx[t].o \in Owner \cup {Null}
      BY DEF TypeInv, Session
    <3>3. QED BY <2>1, <2>2, <3>1, <3>2, TransitionRow
  <2>5. QED BY <2>3, <2>4
<1>3. W \in SUBSET Change /\ Cardinality(W) \in Nat
  <2>1. Picked(t) \in SUBSET Job
    BY <1>2
  <2>2. W = {Write(j, f[j]) : j \in Picked(t)}
    BY <2>1
  <2>3. Cardinality(W) \in Nat
    <3> HIDE DEF f, W
    <3>1. QED BY <2>1, <2>2, SeizedRows
  <2>4. ASSUME NEW j \in Picked(t) PROVE Write(j, Handed(t, j)) \in Change
    BY <1>2 DEF Change, Write
  <2>5. QED BY <2>3, <2>4
<1>4. \A w \in W : /\ w.job \in Job /\ jobs[w.job].status # Null
                   /\ FreeFor(rowLock[w.job], t)
                   /\ Unowned(w.row) /\ Legal(jobs[w.job], w.row)
  BY <1>2 DEF Write
<1> HIDE DEF W
<1>5. TypeInv' /\ Quiet(t) /\ Writes(t, W, "commit")
  BY <1>1, <1>3, <1>4, SeizeStep DEF Seize
<1>6. QED BY <1>5

\* A step that reads the head of the chain or appends to it.
Audits(t) ==
  /\ UNCHANGED <<jobs, inserted, rowLock>>
  /\ Others(t)
  /\ tx'[t].writes = tx[t].writes /\ tx'[t].next = tx[t].next
  /\ tx'[t].pc \in {"append", "read_head", tx[t].next}

LEMMA ReadHeadStep ==
  ASSUME TypeInv, NEW t \in Tx, ReadHead(t)
  PROVE  /\ TypeInv' /\ Audits(t)
         /\ tx'[t].logs = tx[t].logs /\ tx'[t].prev = HeadOf(t)
<1> DEFINE h == HeadOf(t)
           c == [tx[t] EXCEPT !.pc = "append", !.prev = h]
<1>1. tx[t] \in Session
  BY DEF TypeInv
<1>2. h \in Nat
  <2>1. tx[t].logs \in Seq(Entry) /\ head \in Nat
    BY <1>1 DEF Session, TypeInv
  <2>2. tx[t].logs # <<>> => tx[t].logs[Len(tx[t].logs)] \in Entry
    BY <2>1
  <2>3. QED BY <2>1, <2>2 DEF HeadOf, Entry
<1>3. /\ chainLock' = t /\ tx' = [tx EXCEPT ![t].pc = "append", ![t].prev = h]
      /\ UNCHANGED <<now, inserted, jobs, log, nextId, head, scopeLock, rowLock>>
  BY DEF ReadHead
<1> HIDE DEF h
<1>4. /\ c \in Session /\ c.logs = tx[t].logs /\ c.prev = h /\ c.pc = "append"
      /\ c.writes = tx[t].writes /\ c.next = tx[t].next
  <2>1. "append" \in Pc
    BY DEF Pc
  <2>2. QED BY <1>1, <1>2, <2>1 DEF Session
<1>5. tx' = [tx EXCEPT ![t] = c]
  BY <1>3 DEF TypeInv
<1> HIDE DEF c
<1>6. tx'[t] = c /\ tx' \in [Tx -> Session] /\ Others(t)
  BY <1>4, <1>5 DEF TypeInv, Others
<1>7. TypeInv'
  BY <1>3, <1>6 DEF TypeInv
<1>8. QED BY <1>3, <1>4, <1>6, <1>7 DEF Audits, h

LEMMA AppendStep ==
  ASSUME TypeInv, NEW t \in Tx, AppendLog(t)
  PROVE  /\ TypeInv' /\ Audits(t) /\ tx'[t].pc # "append"
         /\ tx'[t].logs = Append(tx[t].logs, [prev |-> tx[t].prev, hash |-> nextId])
<1> DEFINE e == [prev |-> tx[t].prev, hash |-> nextId]
           l == Append(tx[t].logs, e)
           n == tx[t].owed - 1
           p == IF tx[t].owed = 1 THEN tx[t].next ELSE "read_head"
           c == [tx[t] EXCEPT !.logs = l, !.owed = n, !.pc = p]
<1>1. tx[t] \in Session
  BY DEF TypeInv
<1>2. l \in Seq(Entry)
  <2>1. tx[t].logs \in Seq(Entry) /\ e \in Entry
    BY <1>1 DEF Session, TypeInv, Entry
  <2>2. QED BY <2>1
<1>3. n \in Int /\ p \in Pc /\ p \in {"read_head", tx[t].next} /\ p # "append"
  BY <1>1 DEF Session, Pc
<1>4. /\ chainLock' = t /\ nextId' = nextId + 1
      /\ tx' = [tx EXCEPT ![t].logs = l, ![t].owed = n, ![t].pc = p]
      /\ UNCHANGED <<now, inserted, jobs, log, head, scopeLock, rowLock>>
  BY DEF AppendLog, TypeInv
<1> HIDE DEF l, n, p
<1>5. /\ c \in Session /\ c.logs = l /\ c.pc = p
      /\ c.writes = tx[t].writes /\ c.next = tx[t].next
  BY <1>1, <1>2, <1>3 DEF Session
<1>6. tx' = [tx EXCEPT ![t] = c]
  BY <1>4 DEF TypeInv
<1> HIDE DEF c
<1>7. tx'[t] = c /\ tx' \in [Tx -> Session] /\ Others(t)
  BY <1>5, <1>6 DEF TypeInv, Others
<1>8. TypeInv'
  BY <1>4, <1>7 DEF TypeInv
<1>9. QED BY <1>3, <1>4, <1>5, <1>7, <1>8 DEF Audits, l

LEMMA CommitType ==
  ASSUME TypeInv, NEW t \in Tx, Commit(t)
  PROVE  TypeInv' /\ tx'[t] = Idle /\ Others(t)
<1>1. /\ jobs' = [j \in Job |-> View(t, j)] /\ log' = log \o tx[t].logs
      /\ head' = IF tx[t].logs = <<>> THEN head ELSE tx[t].logs[Len(tx[t].logs)].hash
      /\ scopeLock' = Without(scopeLock, t) /\ rowLock' = Without(rowLock, t)
      /\ chainLock' = IF chainLock = t THEN Null ELSE chainLock
      /\ tx' = [tx EXCEPT ![t] = Idle]
      /\ UNCHANGED <<now, inserted, nextId>>
  BY DEF Commit, Release
<1>2. tx[t].logs \in Seq(Entry) /\ head \in Nat /\ log \in Seq(Entry)
  BY DEF TypeInv, Session
<1>3. head' \in Nat /\ log' \in Seq(Entry)
  <2>1. tx[t].logs # <<>> => tx[t].logs[Len(tx[t].logs)] \in Entry
    BY <1>2
  <2>2. QED BY <1>1, <1>2, <2>1 DEF Entry
<1>4. jobs' \in [Job -> Row]
  BY <1>1, ViewType
<1>5. rowLock' \in [Job -> Tx \cup {Null}] /\ scopeLock' \in [LockScope -> Tx \cup {Null}]
  BY <1>1 DEF Without, TypeInv
<1>6. tx'[t] = Idle /\ tx' \in [Tx -> Session] /\ Others(t)
  BY <1>1, IdleFacts DEF TypeInv, Others
<1>7. QED BY <1>1, <1>3, <1>4, <1>5, <1>6 DEF TypeInv

-----------------------------------------------------------------------------
(* The rows *)

\* A session whose locked rows are left alone.
LEMMA OtherRows ==
  ASSUME RowInv, NEW u \in Tx, tx'[u] = tx[u],
         \A j \in Job : rowLock[j] = u => rowLock'[j] = u /\ jobs'[j] = jobs[j]
  PROVE  RowSession(u)'
BY DEF RowInv, RowSession, At

LEMMA RowsBare ==
  ASSUME TypeInv, TypeInv', RowInv, NEW t \in Tx, Bare(t)
  PROVE  RowInv'
<1>1. ASSUME NEW u \in Tx \ {t} PROVE RowSession(u)'
  BY OtherRows DEF Bare, Others
<1>2. RowSession(t)'
  BY DEF RowSession, Bare, At
<1>3. QED BY <1>1, <1>2 DEF Bare, RowInv

LEMMA RowsEnd ==
  ASSUME TypeInv, TypeInv', RowInv, NEW t \in Tx, Ends(t)
  PROVE  RowInv'
<1>1. \A j \in Job : rowLock'[j] = IF rowLock[j] = t THEN Null ELSE rowLock[j]
  BY DEF Ends, Without, TypeInv
<1>2. tx'[t] = Idle /\ Others(t)
  BY DEF Ends, TypeInv, Others
<1>3. ASSUME NEW u \in Tx \ {t} PROVE RowSession(u)'
  BY <1>1, <1>2, OtherRows DEF Ends, Others
<1>4. RowSession(t)'
  BY <1>2, IdleFacts DEF RowSession, At
<1>5. QED BY <1>1, <1>3, <1>4 DEF Ends, RowInv

LEMMA RowsWritten ==
  ASSUME TypeInv, TypeInv', RowInv, NEW t \in Tx, NEW W, NEW pc \in {"commit", "pick"},
         Writes(t, W, pc)
  PROVE  RowInv'
<1>1. ASSUME NEW u \in Tx \ {t} PROVE RowSession(u)'
  <2>1. ASSUME NEW j \in Job, rowLock[j] = u PROVE rowLock'[j] = u /\ jobs'[j] = jobs[j]
    <3>1. \A w \in W : w.job # j
      BY <2>1 DEF Writes, FreeFor
    <3>2. QED BY <2>1, <3>1 DEF Writes
  <2>2. QED BY <2>1, OtherRows DEF Writes, Others
<1>2. RowSession(t)'
  <2>1. \A w \in tx'[t].writes : w \in W \/ w \in tx[t].writes
    BY DEF Writes, Written
  <2>2. \A w \in tx'[t].writes :
          /\ Unowned(w.row)
          /\ w.job \in Job => rowLock'[w.job] = t /\ Legal(jobs'[w.job], w.row)
    <3>1. ASSUME NEW w \in W
          PROVE  /\ Unowned(w.row)
                 /\ w.job \in Job => rowLock'[w.job] = t /\ Legal(jobs'[w.job], w.row)
      BY DEF Writes
    <3>2. ASSUME NEW w \in tx[t].writes
          PROVE  /\ Unowned(w.row)
                 /\ w.job \in Job => rowLock'[w.job] = t /\ Legal(jobs'[w.job], w.row)
      <4>1. /\ Unowned(w.row)
            /\ w.job \in Job => rowLock[w.job] = t /\ Legal(jobs[w.job], w.row)
        BY DEF RowInv, RowSession
      <4>2. QED BY <4>1 DEF Writes
    <3>3. QED BY <2>1, <3>1, <3>2
  <2>3. tx'[t].next = "pick" => \A w \in tx'[t].writes : w.row.status = "expired"
    BY <2>1 DEF Writes
  <2>4. QED BY <2>2, <2>3 DEF Writes, RowSession, At
<1>3. \A j \in Job : j > inserted' => jobs'[j] = NoRow /\ rowLock'[j] = Null
  <2>1. ASSUME NEW j \in Job, j > inserted' PROVE jobs'[j] = NoRow /\ rowLock'[j] = Null
    <3>1. /\ inserted \in Nat /\ inserted' \in Nat /\ inserted <= inserted'
          /\ \A w \in W : w.job <= inserted'
      BY DEF Writes, TypeInv
    <3>2. j > inserted /\ \A w \in W : w.job # j
      BY <2>1, <3>1
    <3>3. QED BY <3>2 DEF Writes, RowInv
  <2>2. QED BY <2>1
<1>4. QED BY <1>1, <1>2, <1>3 DEF RowInv, Writes

LEMMA RowsAudited ==
  ASSUME TypeInv, TypeInv', RowInv, NEW t \in Tx, At(t, "read_head") \/ At(t, "append"), Audits(t)
  PROVE  RowInv'
<1>1. ASSUME NEW u \in Tx \ {t} PROVE RowSession(u)'
  BY OtherRows DEF Audits, Others
<1>2. tx[t].next \in {"commit", "pick"}
  BY DEF TypeInv, Session
<1>3. RowSession(t)'
  BY <1>2 DEF RowInv, RowSession, Audits, At
<1>4. QED BY <1>1, <1>3 DEF Audits, RowInv

\* What a commit makes of each row.
LEMMA CommitRows ==
  ASSUME TypeInv, RowInv, NEW t \in Tx, Commit(t), NEW j \in Job
  PROVE  /\ Legal(jobs[j], jobs'[j]) /\ Unowned(jobs'[j])
         /\ rowLock[j] # t => jobs'[j] = jobs[j]
<1>1. jobs'[j] = View(t, j)
  BY DEF Commit
<1>2. CASE \E w \in tx[t].writes : w.job = j
  <2>1. PICK w \in tx[t].writes : w.job = j /\ View(t, j) = w.row
    BY <1>2 DEF View
  <2>2. QED BY <1>1, <2>1 DEF RowInv, RowSession
<1>3. CASE ~\E w \in tx[t].writes : w.job = j
  BY <1>1, <1>3 DEF View, RowInv, Legal
<1>4. QED BY <1>2, <1>3

LEMMA RowsCommitted ==
  ASSUME TypeInv, TypeInv', RowInv, NEW t \in Tx, Commit(t)
  PROVE  RowInv'
<1>1. \A j \in Job : rowLock'[j] = IF rowLock[j] = t THEN Null ELSE rowLock[j]
  BY DEF Commit, Release, Without, TypeInv
<1>2. tx'[t] = Idle /\ Others(t) /\ inserted' = inserted
  BY CommitType DEF Commit
<1>3. ASSUME NEW u \in Tx \ {t} PROVE RowSession(u)'
  BY <1>1, <1>2, CommitRows, OtherRows DEF Others
<1>4. RowSession(t)'
  BY <1>2, IdleFacts DEF RowSession, At
<1>5. \A j \in Job : Unowned(jobs'[j])
  BY CommitRows
<1>6. \A j \in Job : j > inserted' => jobs'[j] = NoRow /\ rowLock'[j] = Null
  BY <1>1, <1>2, CommitRows DEF RowInv
<1>7. QED BY <1>3, <1>4, <1>5, <1>6 DEF RowInv

-----------------------------------------------------------------------------
(* The audit chain *)

LEMMA EmptySequence ==
  ASSUME NEW S, NEW s \in Seq(S)
  PROVE  s = <<>> <=> Len(s) = 0
OBVIOUS

\* Sequences that follow one another form one.
LEMMA FollowsAppend ==
  ASSUME NEW s \in Seq(Entry), NEW b \in Nat, NEW e \in Entry,
         Follows(s, b), e.prev = LastHash(s, b), e.prev < e.hash
  PROVE  Follows(Append(s, e), b) /\ LastHash(Append(s, e), b) = e.hash
<1>1. /\ Len(Append(s, e)) = Len(s) + 1 /\ Len(s) \in Nat
      /\ \A i \in 1..Len(s) : Append(s, e)[i] = s[i]
      /\ Append(s, e)[Len(s) + 1] = e
  OBVIOUS
<1> DEFINE r == Append(s, e)
<1> HIDE DEF r
<1>2. ASSUME NEW i \in 1..Len(r)
      PROVE  /\ r[i].prev = IF i = 1 THEN b ELSE r[i - 1].hash
             /\ r[i].prev < r[i].hash
  <2>1. CASE i \in 1..Len(s)
    <3>1. i # 1 => i - 1 \in 1..Len(s)
      BY <1>1, <2>1
    <3>2. QED BY <1>1, <2>1, <3>1 DEF Follows, r
  <2>2. CASE i = Len(s) + 1
    <3>1. i # 1 => Len(s) \in 1..Len(s) /\ i - 1 = Len(s) /\ Len(s) # 0
      BY <1>1, <2>2
    <3>2. i = 1 => Len(s) = 0
      BY <1>1, <2>2
    <3>3. QED BY <1>1, <2>2, <3>1, <3>2 DEF LastHash, r
  <2>3. QED BY <1>1, <2>1, <2>2 DEF r
<1>3. QED BY <1>1, <1>2 DEF Follows, LastHash, r

LEMMA FollowsConcat ==
  ASSUME NEW s \in Seq(Entry), NEW u \in Seq(Entry), NEW b \in Nat,
         Follows(s, b), Follows(u, LastHash(s, b))
  PROVE  Follows(s \o u, b) /\ LastHash(s \o u, b) = LastHash(u, LastHash(s, b))
<1> DEFINE r == s \o u
<1>1. /\ Len(r) = Len(s) + Len(u) /\ Len(s) \in Nat /\ Len(u) \in Nat
      /\ \A i \in 1..Len(s) : r[i] = s[i]
      /\ \A i \in 1..Len(u) : r[Len(s) + i] = u[i]
  OBVIOUS
<1> HIDE DEF r
<1>2. ASSUME NEW i \in 1..Len(r)
      PROVE  /\ r[i].prev = IF i = 1 THEN b ELSE r[i - 1].hash
             /\ r[i].prev < r[i].hash
  <2>1. CASE i \in 1..Len(s)
    <3>1. i # 1 => i - 1 \in 1..Len(s)
      BY <1>1, <2>1
    <3>2. QED BY <1>1, <2>1, <3>1 DEF Follows
  <2>2. CASE i > Len(s)
    <3>1. PICK k \in 1..Len(u) : i = Len(s) + k
      <4>1. i - Len(s) \in 1..Len(u) /\ i = Len(s) + (i - Len(s))
        BY <1>1, <2>2
      <4>2. QED BY <4>1
    <3>2. /\ r[i] = u[k] /\ u[k].prev < u[k].hash
          /\ u[k].prev = IF k = 1 THEN LastHash(s, b) ELSE u[k - 1].hash
      BY <1>1, <3>1 DEF Follows
    <3>3. CASE k # 1
      <4>1. k - 1 \in 1..Len(u) /\ i - 1 = Len(s) + (k - 1) /\ i # 1
        BY <1>1, <3>1, <3>3
      <4>2. r[i - 1] = u[k - 1]
        BY <1>1, <4>1
      <4>3. QED BY <3>2, <3>3, <4>1, <4>2
    <3>4. CASE k = 1 /\ Len(s) # 0
      <4>1. Len(s) \in 1..Len(s) /\ i - 1 = Len(s) /\ i # 1
        BY <1>1, <3>1, <3>4
      <4>2. QED BY <1>1, <3>2, <3>4, <4>1 DEF LastHash
    <3>5. CASE k = 1 /\ Len(s) = 0
      BY <1>1, <3>1, <3>2, <3>5 DEF LastHash
    <3>6. QED BY <3>3, <3>4, <3>5
  <2>3. QED BY <1>1, <2>1, <2>2
<1>3. LastHash(r, b) = LastHash(u, LastHash(s, b))
  <2>1. CASE Len(u) = 0
    BY <1>1, <2>1 DEF LastHash
  <2>2. CASE Len(u) # 0
    <3>1. Len(u) \in 1..Len(u) /\ Len(r) # 0
      BY <1>1, <2>2
    <3>2. QED BY <1>1, <2>2, <3>1 DEF LastHash
  <2>3. QED BY <2>1, <2>2
<1>4. QED BY <1>2, <1>3 DEF Follows, r

\* The head as a session sees it is the hash its own rows end with.
LEMMA HeadOfLast ==
  ASSUME TypeInv, NEW t \in Tx
  PROVE  HeadOf(t) = LastHash(tx[t].logs, head) /\ tx[t].logs \in Seq(Entry)
<1>1. tx[t].logs \in Seq(Entry)
  BY DEF TypeInv, Session
<1>2. QED BY <1>1, EmptySequence DEF HeadOf, LastHash

\* A session that did nothing while the head stood still.
LEMMA OtherChain ==
  ASSUME TypeInv, ChainInv, NEW u \in Tx, tx'[u] = tx[u], head' = head,
         nextId' \in Nat, nextId <= nextId', chainLock = u => chainLock' = u
  PROVE  ChainSession(u)'
<1>1. ChainSession(u)
  BY DEF ChainInv
<1>2. HeadOf(u)' = HeadOf(u)
  BY DEF HeadOf
<1>3. LastHash(tx[u].logs, head) < nextId => LastHash(tx[u].logs, head) < nextId'
  <2>1. LastHash(tx[u].logs, head) \in Nat
    <3>1. tx[u].logs \in Seq(Entry) /\ head \in Nat
      BY DEF TypeInv, Session
    <3>2. Len(tx[u].logs) # 0 => tx[u].logs[Len(tx[u].logs)] \in Entry
      BY <3>1
    <3>3. QED BY <3>1, <3>2 DEF LastHash, Entry
  <2>2. QED BY <2>1 DEF TypeInv
<1>4. QED BY <1>1, <1>2, <1>3 DEF ChainSession, At

LEMMA ChainQuiet ==
  ASSUME TypeInv, TypeInv', ChainInv, NEW t \in Tx, Quiet(t)
  PROVE  ChainInv'
<1>1. ASSUME NEW u \in Tx \ {t} PROVE ChainSession(u)'
  <2>1. chainLock = u => chainLock' = u
    BY DEF Quiet
  <2>2. QED BY <2>1, OtherChain DEF Quiet, Others, TypeInv
<1>2. ChainSession(t)'
  <2>1. CASE tx'[t].logs = tx[t].logs /\ chainLock' = chainLock
    BY <2>1 DEF ChainInv, ChainSession, Quiet, At
  <2>2. CASE tx'[t].logs = <<>>
    BY <2>2 DEF ChainInv, ChainSession, Quiet, At, Follows, LastHash
  <2>3. QED BY <2>1, <2>2 DEF Quiet
<1>3. QED BY <1>1, <1>2 DEF ChainInv, Quiet

LEMMA ChainRead ==
  ASSUME TypeInv, TypeInv', ChainInv, NEW t \in Tx, ReadHead(t)
  PROVE  ChainInv'
<1>1. /\ Others(t) /\ tx'[t].logs = tx[t].logs /\ tx'[t].prev = HeadOf(t)
      /\ UNCHANGED <<log, head, nextId>> /\ chainLock' = t /\ chainLock \in {Null, t}
  BY ReadHeadStep DEF ReadHead, Audits, FreeFor
<1>2. ASSUME NEW u \in Tx \ {t} PROVE ChainSession(u)'
  BY <1>1, OtherChain DEF Others, TypeInv
<1>3. ChainSession(t)'
  BY <1>1 DEF ChainInv, ChainSession, HeadOf
<1>4. QED BY <1>1, <1>2, <1>3 DEF ChainInv

LEMMA ChainAppend ==
  ASSUME TypeInv, TypeInv', ChainInv, NEW t \in Tx, AppendLog(t)
  PROVE  ChainInv'
<1> DEFINE e == [prev |-> tx[t].prev, hash |-> nextId]
<1>1. /\ Others(t) /\ tx'[t].logs = Append(tx[t].logs, e) /\ tx'[t].pc # "append"
      /\ UNCHANGED <<log, head>> /\ nextId' = nextId + 1 /\ chainLock' = t /\ chainLock \in {Null, t}
      /\ At(t, "append")
  BY AppendStep DEF AppendLog, Audits, FreeFor
<1>2. ASSUME NEW u \in Tx \ {t} PROVE ChainSession(u)'
  BY <1>1, OtherChain DEF Others, TypeInv
<1>3. ChainSession(t)'
  <2>1. /\ e \in Entry /\ e.prev = LastHash(tx[t].logs, head) /\ e.prev < e.hash
        /\ Follows(tx[t].logs, head) /\ tx[t].logs \in Seq(Entry) /\ head \in Nat /\ nextId \in Nat
    BY <1>1, HeadOfLast DEF ChainInv, ChainSession, TypeInv, Session, Entry
  <2>2. /\ Follows(tx'[t].logs, head') /\ LastHash(tx'[t].logs, head') = nextId
    BY <1>1, <2>1, FollowsAppend
  <2>3. QED BY <1>1, <2>1, <2>2 DEF ChainSession, At
<1>4. head < nextId'
  BY <1>1 DEF ChainInv, TypeInv
<1>5. QED BY <1>1, <1>2, <1>3, <1>4 DEF ChainInv

LEMMA ChainCommit ==
  ASSUME TypeInv, TypeInv', ChainInv, NEW t \in Tx, Commit(t)
  PROVE  ChainInv'
<1>1. /\ tx'[t] = Idle /\ Others(t) /\ log' = log \o tx[t].logs /\ nextId' = nextId
      /\ head' = HeadOf(t)
      /\ chainLock' = IF chainLock = t THEN Null ELSE chainLock
  BY CommitType DEF Commit, Release, HeadOf
<1>2. /\ Follows(tx[t].logs, head) /\ LastHash(tx[t].logs, head) < nextId
      /\ Len(tx[t].logs) # 0 => chainLock = t
      /\ tx[t].logs \in Seq(Entry) /\ log \in Seq(Entry) /\ head' = LastHash(tx[t].logs, head)
  BY <1>1, HeadOfLast DEF ChainInv, ChainSession, TypeInv
<1>3. Follows(log', 0) /\ head' = LastHash(log', 0) /\ head' < nextId'
  BY <1>1, <1>2, FollowsConcat DEF ChainInv
<1>4. ASSUME NEW u \in Tx \ {t} PROVE ChainSession(u)'
  <2>1. chainLock = u => chainLock' = u
    BY <1>1
  <2>2. CASE Len(tx[t].logs) = 0
    <3>1. head' = head
      BY <1>2, <2>2 DEF LastHash
    <3>2. QED BY <1>1, <2>1, <3>1, OtherChain DEF Others, TypeInv
  <2>3. CASE Len(tx[t].logs) # 0
    <3>1. Len(tx[u].logs) = 0 /\ ~At(u, "append")
      BY <1>2, <2>3 DEF ChainInv, ChainSession
    <3>2. tx'[u] = tx[u]
      BY <1>1 DEF Others
    <3>3. QED BY <1>3, <3>1, <3>2 DEF ChainSession, Follows, LastHash, At
  <2>4. QED BY <2>2, <2>3
<1>5. ChainSession(t)'
  BY <1>1, <1>3, IdleFacts DEF ChainSession, Follows, LastHash, At
<1>6. QED BY <1>3, <1>4, <1>5 DEF ChainInv

-----------------------------------------------------------------------------
(* The theorems *)

\* The invariant of the transactions.
Inv == TypeInv /\ ChainInv /\ RowInv

LEMMA InitInv == Init => Inv
<1> SUFFICES ASSUME Init PROVE Inv
  OBVIOUS
<1>1. TypeInv
  BY IdleType, NoRowType DEF Init, TypeInv
<1>2. \A t \in Tx : tx[t] = Idle
  BY DEF Init
<1>3. ChainInv
  BY <1>2, IdleFacts DEF Init, ChainInv, ChainSession, Follows, LastHash, At
<1>4. RowInv
  BY <1>2, IdleFacts DEF Init, RowInv, RowSession, Unowned, NoRow, At
<1>5. QED BY <1>1, <1>3, <1>4 DEF Inv

LEMMA StepInv ==
  ASSUME Inv, [Next]_vars
  PROVE  Inv'
<1> USE DEF Inv
<1>1. ASSUME NEW t \in Tx, Start(t) PROVE Inv'
  BY <1>1, StartStep, ChainQuiet, RowsBare
<1>2. ASSUME NEW t \in Tx, TakeScopeLock(t) \/ DecideReplay(t) \/ DecideConflict(t) \/ DecideFree(t)
      PROVE  Inv'
  BY <1>2, DecideStep, ChainQuiet, RowsBare
<1>3. ASSUME NEW t \in Tx, InsertJob(t) PROVE Inv'
  BY <1>3, InsertStep, ChainQuiet, RowsEnd, RowsWritten
<1>4. ASSUME NEW t \in Tx, LockRow(t) PROVE Inv'
  BY <1>4, LockRowStep, ChainQuiet, RowsEnd, RowsWritten
<1>5. ASSUME NEW t \in Tx, ReapStale(t) PROVE Inv'
  BY <1>5, ReapStep, ChainQuiet, RowsWritten
<1>6. ASSUME NEW t \in Tx, Pick(t) PROVE Inv'
  BY <1>6, PickStep, ChainQuiet, RowsWritten
<1>7. ASSUME NEW t \in Tx, PickLapses(t) \/ Abort(t) PROVE Inv'
  BY <1>7, EndStep, ChainQuiet, RowsEnd DEF PickLapses, Abort
<1>8. ASSUME NEW t \in Tx, ReadHead(t) PROVE Inv'
  <2>1. TypeInv' /\ Audits(t) /\ At(t, "read_head")
    BY <1>8, ReadHeadStep DEF ReadHead
  <2>2. QED BY <1>8, <2>1, ChainRead, RowsAudited
<1>9. ASSUME NEW t \in Tx, AppendLog(t) PROVE Inv'
  <2>1. TypeInv' /\ Audits(t) /\ At(t, "append")
    BY <1>9, AppendStep DEF AppendLog
  <2>2. QED BY <1>9, <2>1, ChainAppend, RowsAudited
<1>10. ASSUME NEW t \in Tx, Commit(t) PROVE Inv'
  BY <1>10, CommitType, ChainCommit, RowsCommitted
<1>11. ASSUME Tick \/ UNCHANGED vars PROVE Inv'
  <2>1. /\ now' \in Nat
        /\ UNCHANGED <<inserted, jobs, log, nextId, head, scopeLock, rowLock, chainLock, tx>>
    BY <1>11 DEF Tick, vars, TypeInv
  <2>2. TypeInv'
    BY <2>1 DEF TypeInv
  <2>3. ChainInv'
    BY <2>1 DEF ChainInv, ChainSession, At, HeadOf
  <2>4. RowInv'
    BY <2>1 DEF RowInv, RowSession, At
  <2>5. QED BY <2>2, <2>3, <2>4
<1>12. QED
  BY <1>1, <1>2, <1>3, <1>4, <1>5, <1>6, <1>7, <1>8, <1>9, <1>10, <1>11 DEF Next, Step

\* The committed audit log is one hash chain by id and its head is the last hash,
\* for any number of sessions that run side by side or are cut off
\* (append_audit_log and its lock of audit_log_chain_state).
THEOREM AuditLogIsOneChain == Spec => []AuditChainIsLinear
<1>1. Inv => AuditChainIsLinear
  <2> SUFFICES ASSUME Inv PROVE AuditChainIsLinear
    OBVIOUS
  <2>1. log \in Seq(Entry) /\ Follows(log, 0) /\ head = LastHash(log, 0) /\ Len(log) \in Nat
    BY DEF Inv, TypeInv, ChainInv
  <2>2. log = <<>> <=> Len(log) = 0
    BY <2>1, EmptySequence
  <2>3. \A i \in 2..Len(log) : log[i - 1].hash < log[i].hash
    <3>1. ASSUME NEW i \in 2..Len(log) PROVE log[i - 1].hash < log[i].hash
      <4>1. i \in 1..Len(log) /\ i # 1
        BY <2>1
      <4>2. QED BY <2>1, <4>1 DEF Follows
    <3>2. QED BY <3>1
  <2>4. QED BY <2>1, <2>2, <2>3 DEF AuditChainIsLinear, Follows, LastHash
<1>2. QED BY InitInv, StepInv, <1>1, PTL DEF Spec

\* No update is lost: every commit makes of every row what the transition rules
\* allow from the row committed before, whoever else was changing it
\* (transition_operation_job, renew_operation_job_lease, claim_mc_main_operation_job).
THEOREM CommitsFollowRules == Spec => CommitsAreLegal
<1> DEFINE LegalStep ==
      \A j \in Job :
        /\ jobs'[j].status # jobs[j].status /\ jobs[j].status # Null
             => <<jobs[j].status, jobs'[j].status>> \in AllowedTransitions
        /\ jobs[j].owner # Null /\ IsActive(jobs'[j])
             => jobs'[j].owner \in {jobs[j].owner, Null}
<1>1. ASSUME Inv, Next PROVE LegalStep
  <2>1. CASE UNCHANGED jobs
    BY <2>1
  <2>2. ASSUME NEW t \in Tx, Commit(t) PROVE LegalStep
    BY <1>1, <2>2, CommitRows DEF Inv, Legal
  <2>3. UNCHANGED jobs \/ \E t \in Tx : Commit(t)
    <3>1. ASSUME NEW t \in Tx, Start(t) PROVE UNCHANGED jobs
      BY <1>1, <3>1, StartStep DEF Inv, Bare
    <3>2. ASSUME NEW t \in Tx, Step(t) PROVE UNCHANGED jobs \/ Commit(t)
      BY <1>1, <3>2 DEF Step, TakeScopeLock, DecideReplay, DecideConflict, DecideFree, InsertJob,
                 Rollback, LockRow, ChangeRow, ReapStale, Pick, Seize, PickLapses, ReadHead, AppendLog
    <3>3. ASSUME NEW t \in Tx, Abort(t) PROVE UNCHANGED jobs
      BY <3>3 DEF Abort, Rollback
    <3>4. QED BY <1>1, <3>1, <3>2, <3>3 DEF Next, Tick
  <2>4. QED BY <2>1, <2>2, <2>3
<1>2. Inv /\ [Next]_vars => [LegalStep]_vars
  BY <1>1
<1>3. QED BY InitInv, StepInv, <1>2, PTL DEF Spec, CommitsAreLegal
=============================================================================
