-------------------------- MODULE ConsoleLogsProofs --------------------------
(***************************************************************************)
(* Proofs about the console log stream, for any number of lines, reports,  *)
(* database sessions and page loads, any limits, and any retention that    *)
(* outlasts the latest report.                                             *)
(*                                                                         *)
(* The row of the host is locked from the look at the stored lines to the  *)
(* commit of the new ones.  So an ingest decides by what is stored, and    *)
(* its ids, drawn under the lock, are above every id that anybody has seen.*)
(***************************************************************************)
EXTENDS ConsoleLogs, FiniteSetTheorems, SequenceTheorems, WellFoundedInduction, TLAPS

Row == [id : Nat \ {0}, line : Nat, at : Nat, received : Nat]

-----------------------------------------------------------------------------
(* The ends of a set of rows *)

\* A set of numbers has a least one, and a greatest one if it is bounded.
LEMMA LeastNat ==
  ASSUME NEW S \in SUBSET Nat, S # {}
  PROVE  \E m \in S : \A x \in S : m <= x
<1> DEFINE R == OpToRel(<, Nat)
<1>1. IsWellFoundedOn(R, Nat)
  BY NatLessThanWellFounded
<1>3. \A x, y \in Nat : x < y => <<x, y>> \in R
  BY DEF OpToRel
<1> HIDE DEF R
<1>2. PICK m \in S : \A y \in S : ~(<<y, m>> \in R)
  BY <1>1, WFMin
<1>4. \A x \in S : ~(x < m)
  BY <1>2, <1>3
<1>5. QED BY <1>4

LEMMA MinOf ==
  ASSUME NEW S \in SUBSET Nat, S # {}
  PROVE  Min(S) \in S /\ \A x \in S : Min(S) <= x
BY LeastNat DEF Min

LEMMA MaxOf ==
  ASSUME NEW S \in SUBSET Nat, S # {}, NEW n \in Nat, \A x \in S : x <= n
  PROVE  Max(S) \in S /\ \A x \in S : Max(S) >= x
<1> DEFINE T == {n - x : x \in S}
<1>1. T \in SUBSET Nat /\ T # {}
  <2>1. \A x \in S : n - x \in Nat
    OBVIOUS
  <2>2. QED BY <2>1
<1>2. PICK k \in T : \A y \in T : k <= y
  BY <1>1, LeastNat
<1>3. PICK m \in S : k = n - m
  OBVIOUS
<1>4. \A x \in S : m >= x
  <2> TAKE x \in S
  <2>1. n - x \in T
    OBVIOUS
  <2>2. k <= n - x
    BY <1>2, <2>1
  <2>3. QED BY <1>3, <2>2
<1>5. QED BY <1>4 DEF Max

LEMMA LastIdOf ==
  ASSUME NEW S \in SUBSET Row, S # {}, NEW d, NEW n \in Nat, \A q \in S : q.id <= n
  PROVE  \E m \in S : LastId(S, d) = m.id /\ \A q \in S : q.id <= m.id
<1> DEFINE Ids == {q.id : q \in S}
<1>1. Ids \in SUBSET Nat /\ Ids # {} /\ \A x \in Ids : x <= n
  BY DEF Row
<1>2. Max(Ids) \in Ids /\ \A x \in Ids : Max(Ids) >= x
  BY <1>1, MaxOf
<1>3. QED BY <1>2 DEF LastId, Row

LEMMA FirstIdOf ==
  ASSUME NEW S \in SUBSET Row, S # {}
  PROVE  \E m \in S : Min({q.id : q \in S}) = m.id
<1> DEFINE Ids == {q.id : q \in S}
<1>1. Ids \in SUBSET Nat /\ Ids # {}
  BY DEF Row
<1>2. Min(Ids) \in Ids
  BY <1>1, MinOf
<1>3. QED BY <1>2

LEMMA NewestIn ==
  ASSUME NEW S, NEW n
  PROVE  Newest(S, n) \subseteq S /\ Oldest(S, n) \subseteq S
BY DEF Newest, Oldest

\* What Newest leaves out, enough newer rows have pushed out.
LEMMA NewestPushes ==
  ASSUME NEW S, IsFiniteSet(S), NEW n \in Nat, NEW q \in S, q \notin Newest(S, n)
  PROVE  Cardinality({r \in S : r.id > q.id}) >= n
<1>1. Cardinality({r \in S : r.id > q.id}) \in Nat
  BY FS_Subset, FS_CardinalityType
<1>2. ~(Cardinality({r \in S : r.id > q.id}) < n)
  BY DEF Newest
<1>3. QED BY <1>1, <1>2

\* Neither leaves a gap.
LEMMA NewestClosed ==
  ASSUME NEW S \in SUBSET Row, IsFiniteSet(S), NEW n \in Nat, NEW m \in Newest(S, n),
         NEW q \in S, m.id <= q.id
  PROVE  q \in Newest(S, n)
<1> DEFINE Above(r) == {x \in S : x.id > r.id}
<1>1. Above(q) \subseteq Above(m) /\ m \in S
  BY NewestIn DEF Row
<1>2. IsFiniteSet(Above(m)) /\ Cardinality(Above(m)) \in Nat
  BY FS_Subset, FS_CardinalityType
<1>3. Cardinality(Above(q)) <= Cardinality(Above(m)) /\ Cardinality(Above(q)) \in Nat
  BY <1>1, <1>2, FS_Subset, FS_CardinalityType
<1>4. Cardinality(Above(m)) < n
  BY DEF Newest
<1>5. QED BY <1>2, <1>3, <1>4 DEF Newest

LEMMA OldestClosed ==
  ASSUME NEW S \in SUBSET Row, IsFiniteSet(S), NEW n \in Nat, NEW m \in Oldest(S, n),
         NEW q \in S, q.id <= m.id
  PROVE  q \in Oldest(S, n)
<1> DEFINE Below(r) == {x \in S : x.id < r.id}
<1>1. Below(q) \subseteq Below(m) /\ m \in S
  BY NewestIn DEF Row
<1>2. IsFiniteSet(Below(m)) /\ Cardinality(Below(m)) \in Nat
  BY FS_Subset, FS_CardinalityType
<1>3. Cardinality(Below(q)) <= Cardinality(Below(m)) /\ Cardinality(Below(q)) \in Nat
  BY <1>1, <1>2, FS_Subset, FS_CardinalityType
<1>4. Cardinality(Below(m)) < n
  BY DEF Oldest
<1>5. QED BY <1>2, <1>3, <1>4 DEF Oldest

\* Fewer rows than asked for are all there are.
LEMMA NewestAll ==
  ASSUME NEW S \in SUBSET Row, IsFiniteSet(S), NEW n \in Nat, NEW b \in Nat, \A q \in S : q.id <= b,
         Cardinality(Newest(S, n)) < n
  PROVE  Newest(S, n) = S
<1> DEFINE Rest == S \ Newest(S, n)
<1> SUFFICES ASSUME Rest # {} PROVE FALSE
  BY NewestIn
<1>1. PICK m \in Rest : \A q \in Rest : q.id <= m.id
  BY LastIdOf
<1>2. {r \in S : r.id > m.id} \subseteq Newest(S, n)
  BY <1>1 DEF Row
<1>3. IsFiniteSet(Newest(S, n)) /\ Cardinality(Newest(S, n)) \in Nat
  BY NewestIn, FS_Subset, FS_CardinalityType
<1>4. Cardinality({r \in S : r.id > m.id}) <= Cardinality(Newest(S, n))
  BY <1>2, <1>3, FS_Subset
<1>5. Cardinality({r \in S : r.id > m.id}) >= n
  BY NewestPushes
<1>6. Cardinality({r \in S : r.id > m.id}) \in Nat
  BY FS_Subset, FS_CardinalityType
<1>7. QED BY <1>3, <1>4, <1>5, <1>6

-----------------------------------------------------------------------------
(* The invariant *)

\* What a report says is true of the host's logs.
HostInv ==
  /\ now \in Nat
  /\ logged \in Seq([at : Nat, kind : Kinds])
  /\ \A l \in 1..Len(logged) : logged[l].at <= now
  /\ \A r \in net : /\ r.at \in 0..now
                    /\ r.lines \subseteq 1..Len(logged)
                    /\ \A l \in r.lines : logged[l].at >= r.at - ReportWindow

\* A row tells the time of its line, and its id has been drawn.
Sound(q) ==
  /\ q \in Row
  /\ q.id < nextId
  /\ q.line \in 1..Len(logged)
  /\ q.at = logged[q.line].at /\ q.at <= q.received /\ q.received <= now

\* A row that was stored is there until it has expired.
EverInv ==
  /\ nextId \in Nat \ {0}
  /\ IsFiniteSet(ever) /\ rows \subseteq ever
  /\ \A q \in ever : Sound(q) /\ (q \in rows \/ Expired(q))
  /\ LineStoredOnce

\* A session that waits for the host's row holds a recent report.
Waiting(t) ==
  /\ t.pc = "host"
  /\ t.req \in net
  /\ t.since \in 0..now /\ now - t.since <= RpcTimeout
  /\ t.req.at \in (t.since - Skew)..(t.since + Skew)

\* One that inserts has the lock; its rows are of lines not stored before, with
\* ids above all the stored ones.
Inserting(t) ==
  /\ t.pc = "insert"
  /\ IsFiniteSet(t.new)
  /\ \A q \in t.new : /\ Sound(q)
                      /\ \A r \in t.new : q.line = r.line => q = r
                      /\ \A r \in ever : r.id < q.id /\ r.line # q.line

SessInv ==
  /\ DOMAIN sess = Session
  /\ \A s \in Session : \/ sess[s] = Idle
                        \/ Waiting(sess[s])
                        \/ Inserting(sess[s]) /\ lock = s

\* The first row that a page is complete from.
FloorOf(p) == IF Cardinality(p.rows) < InitialLimit THEN 0 ELSE Min({q.id : q \in p.rows})

\* A set S of rows holds every matching row since a time in a range of ids.
Complete(S, f, since, ids) ==
  /\ S \subseteq ever
  /\ \A q \in S : Matches(f, q)
  /\ \A q \in ever : Matches(f, q) /\ q.at >= since /\ q.id \in ids => q \in S

PageInv ==
  page # None =>
    /\ page.range \in 0..Retention /\ page.at \in Nat
    /\ Complete(page.rows, page.filter, page.at - page.range, FloorOf(page)..LastId(page.rows, 0))

\* What a poll brings goes on where the viewer has got to.
PollInv ==
  view.poll # None =>
    /\ DOMAIN view.poll = {"after", "rows", "at"}
    /\ view.poll.after = view.lastId
    /\ view.poll.rows # None =>
         /\ view.poll.at \in Nat
         /\ \A q \in view.poll.rows : q.id > view.lastId
         /\ Complete(view.poll.rows, view.filter, view.poll.at - view.range,
                     (view.lastId + 1)..LastId(view.poll.rows, view.lastId))

ViewInv ==
  \/ view = Closed
  \/ /\ view.open = TRUE
     /\ DOMAIN view = {"open", "filter", "range", "entries", "lastId", "follow", "poll", "cut", "floor"}
     /\ view.range \in 0..Retention /\ view.cut \in Int /\ view.floor \in Nat
     /\ view.lastId = 0 \/ \E r \in ever : r.id = view.lastId
     /\ \A q \in view.entries : q \in ever /\ q.id <= view.lastId /\ Matches(view.filter, q)
     /\ FollowMissesNothing
     /\ PollInv

Inv == HostInv /\ EverInv /\ SessInv /\ PageInv /\ ViewInv

-----------------------------------------------------------------------------
(* What a step may do to the stored rows *)

LEMMA ConstantsAre ==
  /\ ReportWindow \in Nat /\ ReportMax \in Nat /\ Skew \in Nat /\ RpcTimeout \in Nat /\ Retention \in Nat
  /\ InitialLimit \in Nat \ {0} /\ PollLimit \in Nat /\ MaxRendered \in Nat
  /\ ReportWindow + Skew + RpcTimeout <= Retention
  /\ None \notin Nat /\ None \notin Session
  /\ \A r \in Ranges : r \in 0..Retention
BY ConsoleLogsAssumption

\* The stored rows only grow, above every id; lines and time stay what they were.
Grows ==
  /\ now' \in Nat /\ now <= now'
  /\ \A l \in 1..Len(logged) : l \in 1..Len(logged') /\ logged'[l] = logged[l]
  /\ ever \subseteq ever'
  /\ \A q \in ever' \ ever : q.id \in Nat \ {0} /\ \A r \in ever : r.id < q.id

LEMMA MatchesKept ==
  ASSUME EverInv, Grows
  PROVE  \A f, q : q \in ever => (Matches(f, q)' <=> Matches(f, q))
BY DEF EverInv, Grows, Sound, Matches

\* The cursor after a set of stored rows is the id of a stored row, or the one before.
LEMMA LastIdIs ==
  ASSUME EverInv, NEW S \in SUBSET ever, NEW d \in Nat
  PROVE  /\ LastId(S, d) \in Nat
         /\ S = {} => LastId(S, d) = d
         /\ S # {} => \E m \in S : LastId(S, d) = m.id /\ \A q \in S : q.id <= m.id
<1>1. S \in SUBSET Row /\ nextId \in Nat /\ \A q \in S : q.id <= nextId
  BY DEF EverInv, Sound, Row
<1>2. CASE S = {}
  BY <1>2 DEF LastId
<1>3. CASE S # {}
  <2>1. \E m \in S : LastId(S, d) = m.id /\ \A q \in S : q.id <= m.id
    BY <1>1, <1>3, LastIdOf
  <2>2. QED BY <1>1, <1>3, <2>1 DEF Row
<1>4. QED BY <1>2, <1>3

\* A page that is complete stays so, whatever is stored meanwhile.
LEMMA PageKept ==
  ASSUME EverInv, PageInv, Grows, UNCHANGED page
  PROVE  PageInv'
<1> SUFFICES ASSUME page # None PROVE PageInv'
  BY DEF PageInv
<1> DEFINE S == page.rows
           f == page.filter
           since == page.at - page.range
           ids == FloorOf(page)..LastId(S, 0)
<1>1. page.range \in 0..Retention /\ page.at \in Nat /\ Complete(S, f, since, ids)
  BY DEF PageInv
<1>2. S' = S /\ f' = f /\ since' = since /\ ids' = ids
  BY DEF FloorOf, LastId
<1> HIDE DEF S, f, since
<1>3. \A q \in ever' \ ever : q.id \notin ids
  <2> TAKE q \in ever' \ ever
  <2>1. LastId(S, 0) \in Nat /\ (S = {} => LastId(S, 0) = 0)
        /\ (S # {} => \E m \in S : LastId(S, 0) = m.id)
    BY <1>1, LastIdIs DEF Complete
  <2>2. q.id \in Nat \ {0} /\ \A r \in ever : r.id < q.id
    BY DEF Grows
  <2>3. LastId(S, 0) < q.id
    BY <1>1, <2>1, <2>2 DEF Complete
  <2> HIDE DEF ids
  <2>4. \A i \in ids : i <= LastId(S, 0)
    BY DEF ids
  <2>5. QED BY <2>1, <2>2, <2>3, <2>4
<1> HIDE DEF ids
<1>4. Complete(S, f, since, ids)'
  BY <1>1, <1>2, <1>3, MatchesKept DEF Complete, Grows
<1>5. QED BY <1>1, <1>4 DEF PageInv, S, f, since, ids

\* The rows that push out the row q of a viewer.
Newer(q) == {r \in ever : Matches(view.filter, r) /\ r.id \in (q.id + 1)..view.lastId}

\* A viewer that has missed nothing has missed nothing of what is stored next.
LEMMA FollowKept ==
  ASSUME EverInv, FollowMissesNothing, view.open, view.lastId \in Nat, view.floor \in Nat,
         view.lastId = 0 \/ \E r \in ever : r.id = view.lastId,
         Grows, IsFiniteSet(ever'), UNCHANGED view
  PROVE  FollowMissesNothing'
<1> SUFFICES ASSUME NEW q \in ever', Matches(view.filter, q)', q.id \in view.floor..view.lastId,
                    q.at >= view.cut, q \notin view.entries
             PROVE  Cardinality(Newer(q)') >= MaxRendered
  BY DEF FollowMissesNothing, Newer
<1>1. q \in ever
  <2>1. ASSUME q \notin ever PROVE FALSE
    <3>1. q.id \in Nat \ {0} /\ \A r \in ever : r.id < q.id
      BY <2>1 DEF Grows
    <3>2. QED BY <3>1
  <2>2. QED BY <2>1
<1>2. Cardinality(Newer(q)) >= MaxRendered
  BY <1>1, MatchesKept DEF FollowMissesNothing, Newer
<1>3. Newer(q) \subseteq Newer(q)'
  BY MatchesKept DEF Newer, Grows
<1>4. IsFiniteSet(Newer(q)')
  BY FS_Subset DEF Newer
<1>5. /\ Cardinality(Newer(q)) <= Cardinality(Newer(q)')
      /\ Cardinality(Newer(q)) \in Nat /\ Cardinality(Newer(q)') \in Nat
  BY <1>3, <1>4, FS_Subset, FS_CardinalityType
<1>6. QED BY <1>2, <1>5, ConstantsAre

LEMMA PollKept ==
  ASSUME EverInv, PollInv, view.lastId \in Nat, Grows, UNCHANGED view
  PROVE  PollInv'
<1> SUFFICES ASSUME view.poll # None, view.poll.rows # None
             PROVE  PollInv'
  BY DEF PollInv
<1> DEFINE S == view.poll.rows
           f == view.filter
           since == view.poll.at - view.range
           ids == (view.lastId + 1)..LastId(S, view.lastId)
<1>1. Complete(S, f, since, ids) /\ \A q \in S : q.id > view.lastId
  BY DEF PollInv
<1>2. S' = S /\ f' = f /\ since' = since /\ ids' = ids
  BY DEF LastId
<1> HIDE DEF S, f, since
<1>3. \A q \in ever' \ ever : q.id \notin ids
  <2> TAKE q \in ever' \ ever
  <2>1. LastId(S, view.lastId) \in Nat /\ (S = {} => LastId(S, view.lastId) = view.lastId)
        /\ (S # {} => \E m \in S : LastId(S, view.lastId) = m.id)
    BY <1>1, LastIdIs DEF Complete
  <2>2. q.id \in Nat \ {0} /\ \A r \in ever : r.id < q.id
    BY DEF Grows
  <2>3. CASE S = {}
    BY <2>1, <2>2, <2>3 DEF ids
  <2>4. CASE S # {}
    BY <1>1, <2>1, <2>2, <2>4 DEF Complete, ids
  <2>5. QED BY <2>3, <2>4
<1> HIDE DEF ids
<1>4. Complete(S, f, since, ids)'
  BY <1>1, <1>2, <1>3, MatchesKept DEF Complete, Grows
<1>5. QED BY <1>1, <1>4 DEF PollInv, S, f, since, ids

LEMMA ViewKept ==
  ASSUME EverInv, ViewInv, Grows, IsFiniteSet(ever'), UNCHANGED view
  PROVE  ViewInv'
<1>1. CASE view = Closed
  BY <1>1 DEF ViewInv, Closed
<1>2. CASE view # Closed
  <2>1. view.lastId \in Nat
    BY <1>2 DEF ViewInv, EverInv, Sound, Row
  <2>2. FollowMissesNothing' /\ PollInv'
    BY <1>2, <2>1, FollowKept, PollKept DEF ViewInv
  <2>3. \A q \in view.entries : q \in ever' /\ q.id <= view.lastId /\ Matches(view.filter, q)'
    BY <1>2, MatchesKept DEF ViewInv, Grows
  <2>4. view.lastId = 0 \/ \E r \in ever' : r.id = view.lastId
    BY <1>2 DEF ViewInv, Grows
  <2>5. QED BY <1>2, <2>2, <2>3, <2>4 DEF ViewInv
<1>3. QED BY <1>1, <1>2

-----------------------------------------------------------------------------
(* Host and database *)

Db == HostInv /\ EverInv /\ SessInv

\* A row that is sound stays so while ids, lines and time only grow.
LEMMA SoundKept ==
  ASSUME Grows, logged' \in Seq([at : Nat, kind : Kinds]), now \in Nat,
         nextId \in Nat, nextId' \in Nat, nextId <= nextId',
         NEW q, Sound(q)
  PROVE  /\ q \in Row
         /\ q.id < nextId'
         /\ q.line \in 1..Len(logged')
         /\ q.at = logged'[q.line].at /\ q.at <= q.received /\ q.received <= now'
BY DEF Sound, Grows, Row

LEMMA TickKeeps ==
  ASSUME Db, Tick
  PROVE  Db' /\ Grows /\ UNCHANGED browser
<1>1. /\ now \in Nat /\ now' = now + 1
      /\ UNCHANGED <<logged, net, sess, lock, nextId, rows, nonces, aborts, ever, browser>>
  BY DEF Db, HostInv, Tick, host, db
<1>2. Grows
  BY <1>1 DEF Grows, Db, HostInv
<1>3. HostInv'
  <2>1. \A l \in 1..Len(logged) : logged[l] \in [at : Nat, kind : Kinds]
    BY ElementOfSeq DEF Db, HostInv
  <2>2. QED BY <1>1, <2>1 DEF Db, HostInv
<1>4. EverInv'
  <2>1. \A q \in ever : Sound(q)' /\ (Expired(q) => Expired(q)')
    BY <1>1, ConstantsAre DEF Db, EverInv, Sound, Row, Expired
  <2>2. LineStoredOnce'
    BY <1>1 DEF Db, EverInv, LineStoredOnce
  <2>3. QED BY <1>1, <2>1, <2>2 DEF Db, EverInv
<1>5. SessInv'
  <2> SUFFICES ASSUME NEW s \in Session
               PROVE  sess[s] = Idle \/ Waiting(sess[s])' \/ (Inserting(sess[s])' /\ lock = s)
    BY <1>1 DEF Db, SessInv, Waiting, Inserting
  <2>1. CASE sess[s] = Idle
    BY <2>1
  <2>2. CASE Waiting(sess[s])
    <3>1. now - sess[s].since < RpcTimeout
      BY <2>2 DEF Tick, Waiting, Idle
    <3>2. QED BY <1>1, <2>2, <3>1, ConstantsAre DEF Waiting
  <2>3. CASE Inserting(sess[s]) /\ lock = s
    <3>1. \A q \in sess[s].new : Sound(q)'
      BY <1>1, <2>3 DEF Inserting, Sound, Row
    <3>2. QED BY <1>1, <2>3, <3>1 DEF Inserting
  <2>4. QED BY <2>1, <2>2, <2>3 DEF Db, SessInv
<1>6. QED BY <1>1, <1>2, <1>3, <1>4, <1>5 DEF Db

LEMMA LogKeeps ==
  ASSUME Db, NEW k \in Kinds, Log(k)
  PROVE  Db' /\ Grows /\ UNCHANGED browser
<1>1. /\ now \in Nat /\ logged' = Append(logged, [at |-> now, kind |-> k])
      /\ UNCHANGED <<now, net, sess, lock, nextId, rows, nonces, aborts, ever, browser>>
  BY DEF Db, HostInv, Log, db
<1>2. logged \in Seq([at : Nat, kind : Kinds]) /\ [at |-> now, kind |-> k] \in [at : Nat, kind : Kinds]
  BY <1>1 DEF Db, HostInv
<1>3. /\ logged' \in Seq([at : Nat, kind : Kinds]) /\ Len(logged') = Len(logged) + 1 /\ Len(logged) \in Nat
      /\ logged'[Len(logged) + 1] = [at |-> now, kind |-> k]
      /\ \A l \in 1..Len(logged) : logged'[l] = logged[l]
  BY <1>1, <1>2, AppendProperties
<1>4. Grows
  BY <1>1, <1>3 DEF Grows, Db, HostInv
<1>5. HostInv'
  <2>1. \A l \in 1..Len(logged') : logged'[l].at <= now'
    BY <1>1, <1>3 DEF Db, HostInv
  <2>2. QED BY <1>1, <1>3, <2>1 DEF Db, HostInv
<1>6. EverInv'
  <2>1. \A q \in ever : Sound(q)'
    BY <1>1, <1>3 DEF Db, EverInv, Sound
  <2>2. QED BY <1>1, <2>1 DEF Db, EverInv, LineStoredOnce, Expired
<1>7. SessInv'
  <2>1. \A s \in Session : Waiting(sess[s]) => Waiting(sess[s])'
    BY <1>1 DEF Waiting
  <2>2. \A s \in Session : Inserting(sess[s]) => Inserting(sess[s])'
    BY <1>1, <1>3 DEF Inserting, Sound
  <2>3. QED BY <1>1, <2>1, <2>2 DEF Db, SessInv
<1>8. QED BY <1>1, <1>4, <1>5, <1>6, <1>7 DEF Db

LEMMA ReportKeeps ==
  ASSUME Db, Report
  PROVE  Db' /\ Grows /\ UNCHANGED browser
<1>1. /\ now \in Nat
      /\ net' = net \cup {[nonce |-> Cardinality(net), at |-> now, lines |-> Collected]}
      /\ UNCHANGED <<now, logged, sess, lock, nextId, rows, nonces, aborts, ever, browser>>
  BY DEF Db, HostInv, Report, db
<1>2. Collected \subseteq 1..Len(logged) /\ \A l \in Collected : logged[l].at >= now - ReportWindow
  BY DEF Collected
<1>3. Grows
  BY <1>1 DEF Grows
<1>4. HostInv'
  <2> DEFINE new == [nonce |-> Cardinality(net), at |-> now, lines |-> Collected]
  <2>1. new.at = now /\ new.lines = Collected
    OBVIOUS
  <2> HIDE DEF new
  <2>2. new.at \in 0..now
    BY <1>1, <2>1
  <2>5. \A l \in new.lines : logged[l].at >= new.at - ReportWindow
    BY <1>2, <2>1
  <2>3. net' = net \cup {new}
    BY <1>1 DEF new
  <2>4. QED BY <1>1, <1>2, <2>1, <2>2, <2>3, <2>5 DEF Db, HostInv
<1>5. EverInv'
  BY <1>1 DEF Db, EverInv, Sound, LineStoredOnce, Expired
<1>6. SessInv'
  BY <1>1 DEF Db, SessInv, Waiting, Inserting, Sound
<1>7. QED BY <1>1, <1>3, <1>4, <1>5, <1>6 DEF Db

LEMMA ReceiveKeeps ==
  ASSUME Db, NEW s \in Session, NEW r \in net, Receive(s, r)
  PROVE  Db' /\ Grows /\ UNCHANGED browser
<1>1. /\ now \in Nat /\ Acceptable(r) /\ sess[s] = Idle
      /\ sess' = [sess EXCEPT ![s] = [pc |-> "host", req |-> r, since |-> now]]
      /\ UNCHANGED <<now, logged, net, lock, nextId, rows, nonces, aborts, ever, browser>>
  BY DEF Db, HostInv, Receive, host
<1>2. Grows
  BY <1>1 DEF Grows
<1>3. HostInv'
  BY <1>1 DEF Db, HostInv
<1>4. EverInv'
  BY <1>1 DEF Db, EverInv, Sound, LineStoredOnce, Expired
<1>5. SessInv'
  <2>1. DOMAIN sess' = Session /\ \A t \in Session \ {s} : sess'[t] = sess[t]
    BY <1>1 DEF Db, SessInv
  <2>2. sess'[s] = [pc |-> "host", req |-> r, since |-> now]
    BY <1>1 DEF Db, SessInv
  <2>3. Waiting(sess[s])'
    BY <1>1, <2>2, ConstantsAre DEF Waiting, Acceptable
  <2>4. \A t \in Session \ {s} : \/ sess'[t] = Idle
                                 \/ Waiting(sess[t])'
                                 \/ Inserting(sess[t])' /\ lock' = t
    BY <1>1, <2>1 DEF Db, SessInv, Waiting, Inserting, Sound
  <2>5. QED BY <2>1, <2>3, <2>4 DEF SessInv
<1>6. QED BY <1>1, <1>2, <1>3, <1>4, <1>5 DEF Db

\* A session that is done, or lost, leaves the others as they are.
LEMMA AbortKeeps ==
  ASSUME Db, NEW s \in Session, Abort(s)
  PROVE  Db' /\ Grows /\ UNCHANGED browser
<1>1. /\ now \in Nat
      /\ sess' = [sess EXCEPT ![s] = Idle] /\ lock' = IF lock = s THEN None ELSE lock
      /\ UNCHANGED <<now, logged, net, nextId, rows, nonces, ever, browser>>
  BY DEF Db, HostInv, Abort, host
<1>2. Grows
  BY <1>1 DEF Grows
<1>3. HostInv'
  BY <1>1 DEF Db, HostInv
<1>4. EverInv'
  BY <1>1 DEF Db, EverInv, Sound, LineStoredOnce, Expired
<1>5. SessInv'
  <2>1. DOMAIN sess' = Session /\ sess'[s] = Idle /\ \A t \in Session \ {s} : sess'[t] = sess[t]
    BY <1>1 DEF Db, SessInv
  <2>2. \A t \in Session \ {s} : \/ sess'[t] = Idle
                                 \/ Waiting(sess[t])'
                                 \/ Inserting(sess[t])' /\ lock' = t
    BY <1>1, <2>1 DEF Db, SessInv, Waiting, Inserting, Sound
  <2>3. QED BY <2>1, <2>2 DEF SessInv
<1>6. QED BY <1>1, <1>2, <1>3, <1>4, <1>5 DEF Db

LEMMA PruneKeeps ==
  ASSUME Db, Prune
  PROVE  Db' /\ Grows /\ UNCHANGED browser
<1>1. /\ now \in Nat /\ rows' = Kept(rows)
      /\ UNCHANGED <<now, logged, net, sess, lock, nextId, aborts, ever, browser>>
  BY DEF Db, HostInv, Prune, host
<1>2. Grows
  BY <1>1 DEF Grows
<1>3. HostInv'
  BY <1>1 DEF Db, HostInv
<1>4. EverInv'
  BY <1>1 DEF Db, EverInv, Sound, LineStoredOnce, Expired, Kept
<1>5. SessInv'
  BY <1>1 DEF Db, SessInv, Waiting, Inserting, Sound
<1>6. QED BY <1>1, <1>2, <1>3, <1>4, <1>5 DEF Db

\* The rows of a report that waits for the lock: what Inserting says of them, once
\* their ids are drawn.
LEMMA NewRowsAre ==
  ASSUME Db, NEW s \in Session, Waiting(sess[s])
  PROVE  LET r == sess[s].req IN
         /\ Cardinality(r.lines) \in Nat
         /\ IsFiniteSet(NewRows(r))
         /\ \A q \in NewRows(r) :
              /\ q \in Row /\ nextId <= q.id /\ q.id < nextId + Cardinality(r.lines)
              /\ q.line \in 1..Len(logged) /\ q.at = logged[q.line].at
              /\ q.at <= q.received /\ q.received = now
              /\ \A p \in NewRows(r) : q.line = p.line => q = p
              /\ \A p \in ever : p.id < q.id /\ p.line # q.line
<1> DEFINE lines == sess[s].req.lines
           fresh == {l \in lines : \A q \in rows : q.line # l}
           Id(l) == nextId + Cardinality({m \in lines : m < l})
           row(l) == [id |-> Id(l), line |-> l, at |-> logged[l].at, received |-> now]
           g == [l \in fresh |-> row(l)]
           New == NewRows(sess[s].req)
<1>1. /\ now \in Nat /\ Len(logged) \in Nat /\ nextId \in Nat \ {0}
      /\ lines \subseteq 1..Len(logged)
      /\ \A l \in 1..Len(logged) : logged[l].at \in Nat /\ logged[l].at <= now
      /\ \A l \in lines : logged[l].at >= sess[s].req.at - ReportWindow
  <2>1. \A l \in 1..Len(logged) : logged[l] \in [at : Nat, kind : Kinds]
    BY ElementOfSeq DEF Db, HostInv
  <2>2. QED BY <2>1, LenProperties DEF Db, HostInv, EverInv, Waiting
<1>2. New = {row(l) : l \in fresh}
  BY DEF NewRows
<1>3. IsFiniteSet(lines) /\ Cardinality(lines) \in Nat
  <2>1. IsFiniteSet(1..Len(logged))
    BY <1>1, FS_Interval
  <2> HIDE DEF lines
  <2>2. QED BY <1>1, <2>1, FS_Subset, FS_CardinalityType
<1>4. IsFiniteSet(New)
  <2>1. IsFiniteSet(fresh)
    BY <1>3, FS_Subset
  <2>2. g \in Surjection(fresh, New)
    BY <1>2 DEF Surjection
  <2> HIDE DEF g, fresh, New
  <2>3. QED BY <2>1, <2>2, FS_Surjection
<1>5. ASSUME NEW l \in lines
      PROVE  Id(l) \in Nat \ {0} /\ nextId <= Id(l) /\ Id(l) < nextId + Cardinality(lines)
  <2> DEFINE before == {m \in lines : m < l}
  <2>1. before \subseteq lines /\ l \notin before
    BY <1>1, <1>5
  <2> HIDE DEF before
  <2>2. Cardinality(before) \in Nat /\ Cardinality(before) < Cardinality(lines)
    BY <1>3, <1>5, <2>1, FS_Subset, FS_CardinalityType
  <2>3. QED BY <1>1, <1>3, <2>2 DEF before
<1>6. ASSUME NEW l \in fresh
      PROVE  \A p \in ever : p.line # l
  <2> SUFFICES ASSUME NEW p \in ever, p.line = l PROVE FALSE
    OBVIOUS
  <2>1. Sound(p) /\ Expired(p)
    BY <1>6 DEF Db, EverInv
  <2>2. p.at = logged[l].at /\ p.at <= p.received /\ p.received < now - Retention /\ p.received \in Nat
    BY <2>1 DEF Sound, Expired, Row
  <2> DEFINE since == sess[s].since
             at == sess[s].req.at
  <2>5. since \in Int /\ now - since <= RpcTimeout /\ at \in Int /\ at >= since - Skew
    BY <1>1, ConstantsAre DEF Waiting
  <2>6. logged[l].at >= at - ReportWindow /\ logged[l].at \in Nat
    BY <1>1, <1>6
  <2> HIDE DEF since, at
  <2>3. p.at >= now - RpcTimeout - Skew - ReportWindow
    BY <1>1, <2>2, <2>5, <2>6, ConstantsAre
  <2>4. QED BY <1>1, <2>2, <2>3, <1>6, ConstantsAre
<1>7. ASSUME NEW l \in fresh
      PROVE  /\ row(l) \in Row /\ nextId <= row(l).id /\ row(l).id < nextId + Cardinality(lines)
             /\ row(l).line = l /\ row(l).at = logged[l].at /\ row(l).received = now
             /\ \A p \in ever : p.id < row(l).id /\ p.line # l
  <2>1. \A p \in ever : p.id < nextId /\ p.id \in Nat
    BY DEF Db, EverInv, Sound, Row
  <2> HIDE DEF Id
  <2>2. row(l) \in Row
    BY <1>1, <1>5, <1>7 DEF Row
  <2>3. \A p \in ever : p.id < Id(l)
    BY <1>1, <1>5, <1>7, <2>1
  <2>4. QED BY <1>5, <1>6, <1>7, <2>2, <2>3
<1>8. fresh \subseteq lines
  OBVIOUS
<1> HIDE DEF row, fresh, lines
<1>9. ASSUME NEW q \in New
      PROVE  /\ q \in Row /\ nextId <= q.id /\ q.id < nextId + Cardinality(lines)
             /\ q.line \in 1..Len(logged) /\ q.at = logged[q.line].at
             /\ q.at <= q.received /\ q.received = now
             /\ \A p \in New : q.line = p.line => q = p
             /\ \A p \in ever : p.id < q.id /\ p.line # q.line
  <2>1. PICK l \in fresh : q = row(l)
    BY <1>2, <1>9
  <2>2. \A p \in New : q.line = p.line => q = p
    BY <1>2, <1>7, <2>1
  <2>3. QED BY <1>1, <1>7, <1>8, <2>1, <2>2
<1>10. QED BY <1>3, <1>4, <1>9 DEF lines

LEMMA IngestKeeps ==
  ASSUME Db, NEW s \in Session, Ingest(s)
  PROVE  Db' /\ Grows /\ UNCHANGED browser
<1> DEFINE r == sess[s].req
           n == Cardinality(r.lines)
           t == [pc |-> "insert", since |-> sess[s].since, new |-> NewRows(r),
                 nonce |-> [nonce |-> r.nonce, received |-> now]]
<1>1. /\ now \in Nat /\ sess[s].pc = "host" /\ lock = None
      /\ UNCHANGED <<now, logged, net, rows, nonces, ever, browser>>
  BY DEF Db, HostInv, Ingest, host
<1>2. Waiting(sess[s]) /\ \A u \in Session : ~(Inserting(sess[u]) /\ lock = u)
  BY <1>1, ConstantsAre DEF Db, SessInv, Inserting, Idle
<1>3. Grows
  BY <1>1 DEF Grows
<1>4. HostInv'
  BY <1>1 DEF Db, HostInv
<1>5. CASE sess' = [sess EXCEPT ![s] = Idle] /\ UNCHANGED <<lock, nextId>>
  <2>1. EverInv'
    BY <1>1, <1>5 DEF Db, EverInv, Sound, LineStoredOnce, Expired
  <2>2. \A u \in Session : sess'[u] = Idle \/ Waiting(sess[u])'
    BY <1>1, <1>2, <1>5 DEF Db, SessInv, Waiting
  <2>3. SessInv'
    BY <1>5, <2>2 DEF Db, SessInv
  <2>4. QED BY <1>1, <1>3, <1>4, <2>1, <2>3 DEF Db
<1>6. CASE lock' = s /\ sess' = [sess EXCEPT ![s] = t] /\ nextId' = nextId + n
  <2>1. n \in Nat /\ nextId \in Nat \ {0}
    BY <1>2, NewRowsAre DEF Db, EverInv
  <2>2. EverInv'
    BY <1>1, <1>6, <2>1 DEF Db, EverInv, Sound, LineStoredOnce, Expired, Row
  <2>3. DOMAIN sess' = Session /\ sess'[s] = t
    BY <1>6 DEF Db, SessInv
  <2>4. \A u \in Session \ {s} : sess'[u] = Idle \/ Waiting(sess[u])'
    BY <1>1, <1>2, <1>6 DEF Db, SessInv, Waiting
  <2>5. Inserting(sess[s])'
    <3>1. t.pc = "insert" /\ t.new = NewRows(r)
      OBVIOUS
    <3> HIDE DEF t
    <3>2. QED BY <1>1, <1>2, <1>6, <2>3, <3>1, NewRowsAre DEF Inserting, Sound
  <2>6. SessInv'
    BY <1>6, <2>3, <2>4, <2>5 DEF SessInv
  <2>7. QED BY <1>1, <1>3, <1>4, <2>2, <2>6 DEF Db
<1>7. QED BY <1>5, <1>6 DEF Ingest

LEMMA CommitKeeps ==
  ASSUME Db, NEW s \in Session, Commit(s)
  PROVE  Db' /\ Grows /\ UNCHANGED browser
<1> DEFINE new == sess[s].new
<1>1. /\ now \in Nat /\ sess[s].pc = "insert"
      /\ rows' = Kept(rows \cup new) /\ ever' = ever \cup new
      /\ sess' = [sess EXCEPT ![s] = Idle]
      /\ UNCHANGED <<now, logged, net, nextId, browser>>
  BY DEF Db, HostInv, Commit, host
<1>2. Inserting(sess[s]) /\ lock = s /\ \A u \in Session \ {s} : ~(Inserting(sess[u]) /\ lock = u)
  BY <1>1 DEF Db, SessInv, Waiting, Idle
<1>3. Grows
  BY <1>1, <1>2 DEF Grows, Inserting, Sound, Row
<1>4. HostInv'
  BY <1>1 DEF Db, HostInv
<1>5. EverInv'
  <2>1. IsFiniteSet(ever')
    BY <1>1, <1>2, FS_Union DEF Db, EverInv, Inserting
  <2>2. \A q \in ever' : Sound(q)' /\ (q \in rows' \/ Expired(q)')
    BY <1>1, <1>2 DEF Db, EverInv, Inserting, Sound, Expired, Kept
  <2>3. LineStoredOnce'
    BY <1>1, <1>2 DEF Db, EverInv, Inserting, LineStoredOnce
  <2>4. rows' \subseteq ever'
    BY <1>1 DEF Db, EverInv, Kept
  <2>5. QED BY <1>1, <2>1, <2>2, <2>3, <2>4 DEF Db, EverInv
<1>6. SessInv'
  <2>1. DOMAIN sess' = Session /\ sess'[s] = Idle /\ \A u \in Session \ {s} : sess'[u] = sess[u]
    BY <1>1 DEF Db, SessInv
  <2>2. \A u \in Session \ {s} : sess'[u] = Idle \/ Waiting(sess[u])'
    BY <1>1, <1>2, <2>1 DEF Db, SessInv, Waiting
  <2>3. QED BY <2>1, <2>2 DEF SessInv
<1>7. QED BY <1>1, <1>3, <1>4, <1>5, <1>6 DEF Db

LEMMA DbKeeps ==
  ASSUME Inv,
         \/ Tick \/ Report \/ Prune
         \/ \E k \in Kinds : Log(k)
         \/ \E s \in Session : (\E r \in net : Receive(s, r)) \/ Ingest(s) \/ Commit(s) \/ Abort(s)
  PROVE  Inv'
<1>1. Db' /\ Grows /\ UNCHANGED browser
  <2>1. Db
    BY DEF Inv, Db
  <2>2. QED BY <2>1, TickKeeps, LogKeeps, ReportKeeps, PruneKeeps, ReceiveKeeps, IngestKeeps, CommitKeeps,
               AbortKeeps
<1>2. PageInv'
  BY <1>1, PageKept DEF Inv, browser
<1>3. ViewInv'
  BY <1>1, ViewKept DEF Inv, Db, EverInv, browser
<1>4. QED BY <1>1, <1>2, <1>3 DEF Inv, Db

-----------------------------------------------------------------------------
(* Page and viewer *)

LEMMA DbStays ==
  ASSUME Inv, UNCHANGED <<now, host, db>>
  PROVE  Db' /\ Grows
<1>1. UNCHANGED <<now, logged, net, sess, lock, nextId, rows, ever>>
  BY DEF host, db
<1>2. HostInv'
  BY <1>1 DEF Inv, HostInv
<1>3. EverInv'
  BY <1>1 DEF Inv, EverInv, Sound, LineStoredOnce, Expired
<1>4. SessInv'
  BY <1>1 DEF Inv, SessInv, Waiting, Inserting, Sound
<1>5. QED BY <1>1, <1>2, <1>3, <1>4 DEF Db, Grows, Inv, HostInv

\* A row that is recent enough to be asked for has not been pruned.
LEMMA ReadableIs ==
  ASSUME HostInv, EverInv, NEW f, NEW range \in 0..Retention, NEW after \in Nat
  PROVE  /\ Readable(f, range, after) \subseteq ever
         /\ \A q \in Readable(f, range, after) : q.id > after /\ Matches(f, q)
         /\ \A q \in ever : Matches(f, q) /\ q.at >= now - range /\ q.id > after
                            => q \in Readable(f, range, after)
<1>1. ASSUME NEW q \in ever, Matches(f, q), q.at >= now - range, q.id > after
      PROVE  q \in Readable(f, range, after)
  <2>1. Sound(q) /\ now \in Nat
    BY DEF HostInv, EverInv
  <2>2. q.received \in Nat /\ q.at \in Nat /\ q.at <= q.received
    BY <2>1 DEF Sound, Row
  <2>3. ~Expired(q)
    BY <1>1, <2>1, <2>2, ConstantsAre DEF Expired
  <2>4. q \in rows
    BY <2>3 DEF EverInv
  <2>5. QED BY <1>1, <2>3, <2>4 DEF Readable
<1>2. QED BY <1>1 DEF Readable, EverInv

\* The answer to a poll has no gap.
LEMMA AnswerComplete ==
  ASSUME HostInv, EverInv, NEW f, NEW range \in 0..Retention, NEW after \in Nat
  PROVE  LET S == GetConsoleLogs(f, range, after, PollLimit) IN
         /\ \A q \in S : q.id > after
         /\ Complete(S, f, now - range, (after + 1)..LastId(S, after))
<1> DEFINE R == Readable(f, range, after)
           S == Oldest(R, PollLimit)
<1>1. GetConsoleLogs(f, range, after, PollLimit) = S
  BY ConstantsAre DEF GetConsoleLogs
<1>2. /\ R \subseteq ever /\ \A q \in R : q.id > after /\ Matches(f, q)
      /\ \A q \in ever : Matches(f, q) /\ q.at >= now - range /\ q.id > after => q \in R
  BY ReadableIs
<1> HIDE DEF R
<1>3. S \subseteq R /\ R \in SUBSET Row /\ IsFiniteSet(R)
  BY <1>2, NewestIn, FS_Subset DEF EverInv, Sound
<1>4. ASSUME NEW q \in ever, Matches(f, q), q.at >= now - range, q.id \in (after + 1)..LastId(S, after)
      PROVE  q \in S
  <2>1. q \in R
    BY <1>2, <1>4
  <2>2. PICK m \in S : LastId(S, after) = m.id
    BY <1>2, <1>3, <1>4, LastIdIs
  <2>3. q.id <= m.id
    BY <1>4, <2>2
  <2> HIDE DEF S
  <2>4. QED BY <1>3, <2>1, <2>2, <2>3, OldestClosed, ConstantsAre DEF S
<1> HIDE DEF S
<1>5. QED BY <1>1, <1>2, <1>3, <1>4 DEF Complete

\* Nor has a page.
LEMMA LoadComplete ==
  ASSUME HostInv, EverInv, NEW f, NEW range \in 0..Retention,
         NEW S, S = GetConsoleLogs(f, range, None, InitialLimit),
         NEW floor, floor = IF Cardinality(S) < InitialLimit THEN 0 ELSE Min({q.id : q \in S})
  PROVE  floor \in Nat /\ Complete(S, f, now - range, floor..LastId(S, 0))
<1> DEFINE R == Readable(f, range, 0)
<1>1. S = Newest(R, InitialLimit)
  BY DEF GetConsoleLogs
<1>2. /\ R \subseteq ever /\ \A q \in R : Matches(f, q)
      /\ \A q \in ever : Matches(f, q) /\ q.at >= now - range /\ q.id > 0 => q \in R
  BY ReadableIs
<1> HIDE DEF R
<1>3. S \subseteq R /\ R \in SUBSET Row /\ S \in SUBSET Row /\ IsFiniteSet(R) /\ IsFiniteSet(S)
  BY <1>1, <1>2, NewestIn, FS_Subset DEF EverInv, Sound
<1>4. \A q \in ever : q.id \in Nat \ {0} /\ q.id < nextId /\ nextId \in Nat
  BY DEF EverInv, Sound, Row
<1>5. CASE Cardinality(S) < InitialLimit
  <2>1. S = R
    BY <1>1, <1>2, <1>3, <1>4, <1>5, NewestAll, ConstantsAre
  <2>2. QED BY <1>2, <1>4, <1>5, <2>1 DEF Complete
<1>6. CASE ~(Cardinality(S) < InitialLimit)
  <2>1. S # {}
    BY <1>6, FS_EmptySet, ConstantsAre
  <2>2. PICK m \in S : floor = m.id
    BY <1>3, <1>6, <2>1, FirstIdOf
  <2>3. ASSUME NEW q \in ever, Matches(f, q), q.at >= now - range, q.id \in floor..LastId(S, 0)
        PROVE  q \in S
    <3>1. q \in R
      BY <1>2, <1>4, <2>3
    <3>2. m.id <= q.id
      BY <2>2, <2>3
    <3>3. QED BY <1>1, <1>3, <3>1, <3>2, NewestClosed, ConstantsAre
  <2>4. QED BY <1>2, <1>3, <1>4, <2>2, <2>3 DEF Complete
<1>7. QED BY <1>5, <1>6

\* What the viewer cannot keep of the rows it has, newer rows have pushed out.
LEMMA Pushed ==
  ASSUME EverInv, NEW f, NEW last \in Nat, NEW S \in SUBSET ever,
         \A r \in S : Matches(f, r) /\ r.id <= last,
         NEW q \in S, q \notin Newest(S, MaxRendered)
  PROVE  Cardinality({r \in ever : Matches(f, r) /\ r.id \in (q.id + 1)..last}) >= MaxRendered
<1> DEFINE A == {r \in S : r.id > q.id}
           B == {r \in ever : Matches(f, r) /\ r.id \in (q.id + 1)..last}
<1>1. \A r \in ever : r.id \in Nat
  BY DEF EverInv, Sound, Row
<1>2. IsFiniteSet(S)
  BY FS_Subset DEF EverInv
<1>3. Cardinality(A) >= MaxRendered
  BY <1>2, NewestPushes, ConstantsAre
<1>4. A \subseteq B
  BY <1>1
<1>5. IsFiniteSet(B)
  BY FS_Subset DEF EverInv
<1> HIDE DEF A, B
<1>6. Cardinality(A) <= Cardinality(B) /\ Cardinality(A) \in Nat /\ Cardinality(B) \in Nat
  BY <1>4, <1>5, FS_Subset, FS_CardinalityType
<1>7. Cardinality(B) >= MaxRendered
  BY <1>3, <1>6, ConstantsAre
<1>8. QED BY <1>7 DEF B

LEMMA LoadKeeps ==
  ASSUME Inv, NEW f \in Filter, NEW range \in Ranges, Load(f, range)
  PROVE  Inv'
<1> DEFINE S == GetConsoleLogs(f, range, None, InitialLimit)
<1>1. /\ UNCHANGED <<now, host, db, view>>
      /\ page' = [filter |-> f, range |-> range, at |-> now, rows |-> S]
  BY DEF Load
<1>2. Db' /\ Grows /\ UNCHANGED <<now, logged, ever>>
  BY <1>1, DbStays DEF host, db
<1>3. ViewInv'
  BY <1>1, <1>2, ViewKept DEF Inv, Db, EverInv
<1>4. /\ page'.filter = f /\ page'.range = range /\ page'.at = now /\ page'.rows = S
      /\ range \in 0..Retention /\ now \in Nat
  BY <1>1, ConstantsAre DEF Inv, HostInv
<1> HIDE DEF S
<1>5. Complete(S, f, now - range, FloorOf(page')..LastId(S, 0))
  <2>1. FloorOf(page') = IF Cardinality(S) < InitialLimit THEN 0 ELSE Min({q.id : q \in S})
    BY <1>4 DEF FloorOf
  <2>2. QED BY <1>4, <2>1, LoadComplete DEF Inv, S
<1>7. PageInv'
  BY <1>2, <1>4, <1>5, MatchesKept DEF PageInv, Complete, Inv
<1>8. QED BY <1>2, <1>3, <1>7 DEF Inv, Db

\* A step that leaves the rows alone: the viewer's invariant is about its new value.
LEMMA FreshIsComplete ==
  ASSUME Inv, page # None, UNCHANGED <<now, host, db>>, view' = Fresh(page)
  PROVE  ViewInv'
<1> DEFINE S == page.rows
           f == page.filter
           last == LastId(S, 0)
<1>1. UNCHANGED <<now, logged, ever>> /\ Grows /\ Db
  BY DbStays DEF host, db, Inv, Db
<1>2. /\ view'.open = TRUE /\ view'.filter = f /\ view'.range = page.range
      /\ view'.entries = Newest(S, MaxRendered) /\ view'.lastId = last /\ view'.poll = None
      /\ view'.cut = page.at - page.range /\ view'.floor = FloorOf(page)
      /\ DOMAIN view' = {"open", "filter", "range", "entries", "lastId", "follow", "poll", "cut", "floor"}
  BY DEF Fresh, FloorOf
<1>3. /\ page.range \in 0..Retention /\ page.at \in Nat
      /\ Complete(S, f, page.at - page.range, FloorOf(page)..last)
  BY DEF Inv, PageInv
<1>4. /\ last \in Nat
      /\ S = {} => last = 0
      /\ S # {} => \E m \in S : last = m.id
      /\ \A q \in S : q.id <= last
  BY <1>1, <1>3, LastIdIs DEF Complete, Db
<1>5. FloorOf(page) \in Nat
  <2>1. CASE S = {}
    BY <2>1, FS_EmptySet, ConstantsAre DEF FloorOf
  <2>2. CASE S # {}
    <3>1. S \in SUBSET Row
      BY <1>3 DEF Complete, Inv, EverInv, Sound
    <3>2. \E m \in S : Min({q.id : q \in S}) = m.id
      BY <2>2, <3>1, FirstIdOf
    <3>3. QED BY <3>1, <3>2 DEF FloorOf, Row
  <2>3. QED BY <2>1, <2>2
<1> HIDE DEF S, f, last
<1>6. Newest(S, MaxRendered) \subseteq S
  BY NewestIn
<1>7. FollowMissesNothing'
  <2> SUFFICES ASSUME NEW q \in ever, Matches(f, q), q.id \in FloorOf(page)..last, q.at >= page.at - page.range,
                      q \notin Newest(S, MaxRendered)
               PROVE  Cardinality({r \in ever : Matches(f, r) /\ r.id \in (q.id + 1)..last}) >= MaxRendered
    BY <1>1, <1>2 DEF FollowMissesNothing, Matches
  <2>1. q \in S
    BY <1>3 DEF Complete
  <2>2. S \in SUBSET ever /\ \A r \in S : Matches(f, r) /\ r.id <= last
    BY <1>3, <1>4 DEF Complete
  <2>3. EverInv /\ last \in Nat
    BY <1>1, <1>4 DEF Db
  <2>4. QED BY <2>1, <2>2, <2>3, Pushed
<1>8. \A q \in view'.entries : q \in ever' /\ q.id <= view'.lastId /\ Matches(view.filter, q)'
  <2>1. \A q \in S : Matches(view'.filter, q)
    BY <1>2, <1>3 DEF Complete
  <2>2. \A q \in S : Matches(view.filter, q)'
    BY <1>1, <2>1 DEF Matches
  <2>3. QED BY <1>1, <1>2, <1>3, <1>4, <1>6, <2>2 DEF Complete
<1>9. view'.lastId = 0 \/ \E r \in ever' : r.id = view'.lastId
  BY <1>1, <1>2, <1>3, <1>4 DEF Complete
<1>10. PollInv'
  BY <1>2 DEF PollInv
<1>11. view'.cut \in Int
  BY <1>2, <1>3
<1>12. QED BY <1>2, <1>3, <1>5, <1>7, <1>8, <1>9, <1>10, <1>11 DEF ViewInv

LEMMA MountKeeps ==
  ASSUME Inv, Mount
  PROVE  Inv'
<1>1. UNCHANGED <<now, host, db>> /\ page # None /\ page' = None
  BY DEF Mount
<1>2. Db' /\ Grows
  BY <1>1, DbStays
<1>3. PageInv'
  BY <1>1 DEF PageInv
<1>4. ViewInv'
  <2>1. CASE view' = Fresh(page)
    BY <1>1, <2>1, FreshIsComplete
  <2>2. CASE view' = view
    BY <1>2, <2>2, ViewKept DEF Inv, Db, EverInv
  <2>3. QED BY <2>1, <2>2 DEF Mount
<1>5. QED BY <1>2, <1>3, <1>4 DEF Inv, Db

LEMMA LoadFailsKeeps ==
  ASSUME Inv, LoadFails
  PROVE  Inv'
<1>1. Db' /\ page' = None /\ view' = Closed
  BY DbStays DEF LoadFails
<1>2. QED BY <1>1 DEF Inv, Db, PageInv, ViewInv

\* The fields of an open viewer, and a step that changes what is on its way only.
Fields == {"open", "filter", "range", "entries", "lastId", "follow", "poll", "cut", "floor"}

LEMMA OpenIs ==
  ASSUME Inv, view.open
  PROVE  /\ DOMAIN view = Fields /\ view.open = TRUE
         /\ view.range \in 0..Retention /\ view.cut \in Int /\ view.floor \in Nat /\ view.lastId \in Nat
         /\ view.lastId = 0 \/ \E r \in ever : r.id = view.lastId
         /\ \A q \in view.entries : q \in ever /\ q.id <= view.lastId /\ Matches(view.filter, q)
         /\ FollowMissesNothing /\ PollInv
<1>1. view # Closed
  BY DEF Closed
<1>2. QED BY <1>1 DEF Inv, ViewInv, Fields, EverInv, Sound, Row

LEMMA SameShown ==
  ASSUME Inv, view.open, UNCHANGED <<now, host, db, page>>, PollInv',
         DOMAIN view' = Fields,
         \A i \in Fields \ {"poll", "follow"} : view'[i] = view[i]
  PROVE  Inv'
<1>1. Db' /\ Grows /\ UNCHANGED <<logged, ever>>
  BY DbStays DEF host, db
<1>2. /\ view'.open = view.open /\ view'.filter = view.filter /\ view'.range = view.range
      /\ view'.entries = view.entries /\ view'.lastId = view.lastId /\ view'.cut = view.cut
      /\ view'.floor = view.floor
  BY DEF Fields
<1>3. FollowMissesNothing'
  BY <1>1, <1>2, OpenIs DEF FollowMissesNothing, Matches
<1>4. \A q \in view'.entries : q \in ever' /\ q.id <= view'.lastId /\ Matches(view.filter, q)'
  BY <1>1, <1>2, OpenIs DEF Matches
<1>5. ViewInv'
  BY <1>1, <1>2, <1>3, <1>4, OpenIs DEF ViewInv, Fields
<1>6. PageInv'
  BY <1>1, PageKept DEF Inv
<1>7. QED BY <1>1, <1>5, <1>6 DEF Inv, Db

LEMMA PollKeeps ==
  ASSUME Inv, Poll
  PROVE  Inv'
<1> DEFINE p == [after |-> view.lastId, rows |-> None, at |-> now]
<1>1. view.open /\ view' = [view EXCEPT !.poll = p] /\ UNCHANGED <<now, host, db, page>>
  BY DEF Poll
<1>2. DOMAIN view' = Fields /\ view'.poll = p /\ \A i \in Fields \ {"poll"} : view'[i] = view[i]
  BY <1>1, OpenIs DEF Fields
<1>3. PollInv'
  <2>1. DOMAIN p = {"after", "rows", "at"} /\ p.after = view.lastId /\ p.rows = None
    OBVIOUS
  <2>2. view'.lastId = view.lastId
    BY <1>2 DEF Fields
  <2> HIDE DEF p
  <2>3. QED BY <1>2, <2>1, <2>2 DEF PollInv
<1>4. QED BY <1>1, <1>2, <1>3, SameShown

\* A viewer without a poll.
LEMMA DroppedKeeps ==
  ASSUME Inv, PollFails \/ \E f \in BOOLEAN : Toggle(f)
  PROVE  Inv'
<1>1. view.open /\ UNCHANGED <<now, host, db, page>>
  BY DEF PollFails, Toggle, Polling
<1>2. DOMAIN view' = Fields /\ view'.poll = None
      /\ \A i \in Fields \ {"poll", "follow"} : view'[i] = view[i]
  BY <1>1, OpenIs DEF Fields, PollFails, Toggle
<1>3. PollInv'
  BY <1>2 DEF PollInv
<1>4. QED BY <1>1, <1>2, <1>3, SameShown

LEMMA AnswerKeeps ==
  ASSUME Inv, Answer
  PROVE  Inv'
<1> DEFINE S == GetConsoleLogs(view.filter, view.range, view.poll.after, PollLimit)
           p == [view.poll EXCEPT !.at = now, !.rows = S]
<1>1. view.open /\ view.poll # None /\ UNCHANGED <<now, host, db, page>>
  BY DEF Answer, Polling
<1>2. DOMAIN view.poll = {"after", "rows", "at"} /\ view.poll.after = view.lastId /\ now \in Nat
  BY <1>1, OpenIs DEF PollInv, Inv, HostInv
<1>3. /\ DOMAIN view' = Fields /\ \A i \in Fields \ {"poll"} : view'[i] = view[i]
      /\ DOMAIN view'.poll = {"after", "rows", "at"}
      /\ view'.poll.after = view.lastId /\ view'.poll.at = now /\ view'.poll.rows = S
  BY <1>1, <1>2, OpenIs DEF Fields, Answer
<1>4. /\ view'.lastId = view.lastId /\ view'.filter = view.filter /\ view'.range = view.range
      /\ view.lastId \in Nat /\ view.range \in 0..Retention
  BY <1>1, <1>3, OpenIs DEF Fields
<1>5. /\ \A q \in S : q.id > view.lastId
      /\ Complete(S, view.filter, now - view.range, (view.lastId + 1)..LastId(S, view.lastId))
  BY <1>2, <1>4, AnswerComplete DEF Inv
<1>6. UNCHANGED <<logged, ever>>
  BY <1>1 DEF host, db
<1> HIDE DEF S, p
<1>7. PollInv'
  BY <1>2, <1>3, <1>4, <1>5, <1>6 DEF PollInv, Complete, Matches
<1>8. QED BY <1>1, <1>3, <1>7, SameShown

LEMMA DeliverKeeps ==
  ASSUME Inv, Deliver
  PROVE  Inv'
<1> DEFINE S == view.poll.rows
           f == view.filter
           cutoff == view.poll.at - view.range
           from == view.lastId
           upto == LastId(S, from)
           last == Bigger(from, upto)
           cand == {q \in view.entries \cup S : q.at >= cutoff}
<1>1. view.open /\ view.poll # None /\ S # None /\ UNCHANGED <<now, host, db, page>>
  BY DEF Deliver, Polling
<1>2. /\ DOMAIN view = Fields /\ view.open = TRUE
      /\ view.range \in 0..Retention /\ view.cut \in Int /\ view.floor \in Nat /\ from \in Nat
      /\ from = 0 \/ \E r \in ever : r.id = from
      /\ \A q \in view.entries : q \in ever /\ q.id <= from /\ Matches(f, q)
  BY <1>1, OpenIs
<1>3. /\ view.poll.after = from /\ view.poll.at \in Nat
      /\ \A q \in S : q.id > from
      /\ Complete(S, f, cutoff, (from + 1)..upto)
  BY <1>1, OpenIs DEF PollInv
<1>4. /\ upto \in Nat /\ upto >= from /\ last = upto
      /\ S = {} => upto = from
      /\ S # {} => \E m \in S : upto = m.id
      /\ \A q \in S : q.id <= upto
  <2>1. S \in SUBSET ever /\ EverInv /\ \A q \in ever : q.id \in Nat
    BY <1>3 DEF Complete, Inv, EverInv, Sound, Row
  <2>2. /\ upto \in Nat /\ (S = {} => upto = from)
        /\ (S # {} => \E m \in S : upto = m.id /\ \A q \in S : q.id <= m.id)
    BY <1>2, <2>1, LastIdIs
  <2>3. upto >= from
    BY <1>2, <1>3, <2>1, <2>2
  <2>4. QED BY <1>2, <2>2, <2>3 DEF Bigger
<1>5. view' = [view EXCEPT !.poll = None, !.lastId = last,
                           !.entries = Newest(cand, MaxRendered), !.cut = Bigger(view.cut, cutoff)]
  BY <1>3 DEF Deliver, Merged
<1>6. /\ DOMAIN view' = Fields /\ view'.open = TRUE /\ view'.poll = None
      /\ view'.filter = f /\ view'.range = view.range /\ view'.floor = view.floor
      /\ view'.lastId = upto /\ view'.entries = Newest(cand, MaxRendered)
      /\ view'.cut = Bigger(view.cut, cutoff)
  BY <1>2, <1>4, <1>5 DEF Fields
<1>7. Db' /\ Grows /\ UNCHANGED <<logged, ever>>
  BY <1>1, DbStays DEF host, db
<1>8. cutoff \in Int /\ view'.cut \in Int /\ view'.cut >= view.cut /\ view'.cut >= cutoff
  BY <1>2, <1>3, <1>6 DEF Bigger
<1>9. cand \in SUBSET ever /\ \A r \in cand : Matches(f, r) /\ r.id <= upto
  BY <1>2, <1>3, <1>4 DEF Complete, Inv, EverInv, Sound, Row
<1>10. EverInv /\ \A q \in ever : q.id \in Nat /\ q.at \in Nat
  BY DEF Inv, EverInv, Sound, Row
<1>11. FollowMissesNothing
  BY <1>1, OpenIs
<1> HIDE DEF S, upto, last, cand, cutoff
<1>12. ASSUME NEW q \in ever, Matches(f, q), q.id \in view.floor..upto, q.at >= view'.cut,
              q \notin Newest(cand, MaxRendered)
       PROVE  Cardinality({r \in ever : Matches(f, r) /\ r.id \in (q.id + 1)..upto}) >= MaxRendered
  <2>1. q.at >= view.cut /\ q.at >= cutoff
    BY <1>2, <1>8, <1>10, <1>12
  <2>2. CASE q \in cand
    <3>1. EverInv /\ upto \in Nat /\ q \notin Newest(cand, MaxRendered)
      BY <1>4, <1>10, <1>12
    <3>2. QED BY <1>9, <2>2, <3>1, Pushed
  <2>3. CASE q \notin cand
    <3>1. q \notin view.entries /\ q \notin S
      BY <2>1, <2>3 DEF cand
    <3>2. q.id <= from
      BY <1>2, <1>3, <1>4, <1>10, <1>12, <2>1, <3>1 DEF Complete
    <3> DEFINE A == {r \in ever : Matches(f, r) /\ r.id \in (q.id + 1)..from}
               B == {r \in ever : Matches(f, r) /\ r.id \in (q.id + 1)..upto}
    <3>3. Cardinality(A) >= MaxRendered
      BY <1>1, <1>2, <1>10, <1>11, <1>12, <2>1, <3>1, <3>2 DEF FollowMissesNothing
    <3>4. A \subseteq B /\ IsFiniteSet(B)
      <4>1. A \subseteq B
        BY <1>2, <1>4, <1>10
      <4>2. QED BY <1>10, <4>1, FS_Subset DEF EverInv
    <3> HIDE DEF A, B
    <3>5. Cardinality(A) <= Cardinality(B) /\ Cardinality(A) \in Nat /\ Cardinality(B) \in Nat
      BY <3>4, FS_Subset, FS_CardinalityType
    <3>6. Cardinality(B) >= MaxRendered
      BY <3>3, <3>5, ConstantsAre
    <3>7. QED BY <3>6 DEF B
  <2>4. QED BY <2>2, <2>3
<1>13. FollowMissesNothing'
  BY <1>6, <1>7, <1>12 DEF FollowMissesNothing, Matches
<1>14. \A q \in view'.entries : q \in ever' /\ q.id <= view'.lastId /\ Matches(view.filter, q)'
  <2>1. \A q \in cand : Matches(view.filter, q)'
    BY <1>6, <1>7, <1>9 DEF Matches
  <2>2. QED BY <1>6, <1>7, <1>9, <2>1, NewestIn
<1>15. view'.lastId = 0 \/ \E r \in ever' : r.id = view'.lastId
  BY <1>2, <1>3, <1>4, <1>6, <1>7 DEF Complete
<1>16. PollInv'
  BY <1>6 DEF PollInv
<1>17. ViewInv'
  BY <1>2, <1>6, <1>8, <1>13, <1>14, <1>15, <1>16 DEF ViewInv, Fields
<1>18. PageInv'
  BY <1>1, <1>7, PageKept DEF Inv
<1>19. QED BY <1>7, <1>17, <1>18 DEF Inv, Db

-----------------------------------------------------------------------------
(* Theorems *)

LEMMA InitInv == Init => Inv
<1> SUFFICES ASSUME Init PROVE Inv
  OBVIOUS
<1>1. HostInv
  <2>1. logged = <<>> /\ net = {} /\ now = 0
    BY DEF Init
  <2>2. QED BY <2>1, EmptySeq DEF HostInv
<1>2. EverInv
  BY FS_EmptySet DEF Init, EverInv, LineStoredOnce
<1>3. SessInv
  BY DEF Init, SessInv
<1>4. PageInv /\ ViewInv
  BY DEF Init, PageInv, ViewInv
<1>5. QED BY <1>1, <1>2, <1>3, <1>4 DEF Inv

LEMMA NextInv == Inv /\ [Next]_vars => Inv'
<1> SUFFICES ASSUME Inv, [Next]_vars PROVE Inv'
  OBVIOUS
<1>1. CASE UNCHANGED vars
  <2>1. UNCHANGED <<now, host, db, page, view>>
    BY <1>1 DEF vars, browser
  <2>2. Db' /\ Grows
    BY <2>1, DbStays
  <2>3. PageInv' /\ ViewInv'
    BY <2>1, <2>2, PageKept, ViewKept DEF Inv, Db, EverInv
  <2>4. QED BY <2>2, <2>3 DEF Inv, Db
<1>2. CASE Next
  BY <1>2, DbKeeps, LoadKeeps, LoadFailsKeeps, MountKeeps, PollKeeps, AnswerKeeps, DroppedKeeps, DeliverKeeps
     DEF Next
<1>3. QED BY <1>1, <1>2

LEMMA Invariance == Spec => []Inv
BY InitInv, NextInv, PTL DEF Spec

\* However the reports overlap, repeat or are late, and however long nonces and
\* rows are kept, no line of a host is stored twice: the lock, the unique event
\* id and a retention that outlasts the latest report (ingest_console_log_report_v1).
THEOREM LinesAreStoredOnce == Spec => []LineStoredOnce
<1>1. Inv => LineStoredOnce
  BY DEF Inv, EverInv
<1>2. QED BY <1>1, Invariance, PTL

\* A viewer that follows has every stored row up to its cursor, but for the old and
\* those that newer rows have pushed out, however ingests, polls, prunings and page
\* loads interleave (LogViewer, get_console_logs_v2).
THEOREM FollowingMissesNothing == Spec => []FollowMissesNothing
<1>1. Inv => FollowMissesNothing
  BY DEF Inv, ViewInv, Closed, FollowMissesNothing
<1>2. QED BY <1>1, Invariance, PTL

\* No poll or page for earlier filters ends up under the ones that are shown.
THEOREM OnlyMatchesAreShown == Spec => []ShownLinesMatch
<1>1. Inv => ShownLinesMatch
  BY DEF Inv, ViewInv, Closed, ShownLinesMatch
<1>2. QED BY <1>1, Invariance, PTL
=============================================================================
