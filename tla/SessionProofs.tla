---------------------------- MODULE SessionProofs ----------------------------
(***************************************************************************)
(* Proofs about who may do what.                                           *)
(*                                                                         *)
(* Access: sign-ins, sessions and Access tokens, for any number of users,  *)
(* sessions, sign-ins under way and signing keys, any roles and any times  *)
(* to live.                                                                *)
(*                                                                         *)
(* OperationConsole: for any number of tabs, users, requests and claims.   *)
(* A nonce is in the ledger before its claim is made and is never made a   *)
(* claim of again.                                                         *)
(***************************************************************************)
EXTENDS Access, OperationConsole, SequenceTheorems, TLAPS

USE AccessAssumption

Time == Nat \cup {None}
SessionRow == [user : Users, role : ConsoleRole \cup {None}, created : Nat, expires : Nat, revoked : Time]

-----------------------------------------------------------------------------
(* The invariant *)

\* A row lives from its creation, for the time to live.
RowsInv ==
  /\ now \in Nat
  /\ sessions \in Seq(SessionRow)
  /\ \A i \in DOMAIN sessions : sessions[i].expires = sessions[i].created + SessionTtl

\* A sign-in that is about to insert has found every session of its user that was
\* live at its clock, and is the only one of its user that far.
Found(c) ==
  \A i \in DOMAIN sessions : sessions[i].user = c.user /\ Live(i, c.vnow) => i \in c.rows

CallbackInv ==
  /\ \A a \in attempts : a.user \in Users
  /\ \A c \in callbacks :
       /\ c.user \in Users
       /\ DOMAIN c = {"id", "user", "step", "role", "vnow", "rows"}
       /\ c.role \in ConsoleRole \cup {None}
       /\ c.step \in {"lock", "insert", "answer"} => c.vnow \in 0..now
       /\ c.step = "insert" => Found(c)
  /\ \A c, d \in callbacks : c.step = "insert" /\ d.step = "insert" /\ c.user = d.user => c = d

\* What was published at an instant is published still, or was withdrawn later.
GoodSince(keys, t) == \A k \in keys : withdrawn[k] \in Nat => withdrawn[k] >= t

\* Members have roles; keys that are cached or on their way are good since their fetch began.
OutsideInv ==
  /\ member \in [Users -> RoleSets]
  /\ published \subseteq Keys /\ DOMAIN withdrawn = Keys
  /\ \A k \in Keys : withdrawn[k] \in Time
  /\ \A k \in published : withdrawn[k] = None
  /\ \A f \in fetches : /\ DOMAIN f = {"start", "keys"}
                        /\ f.start \in 0..now
                        /\ f.keys # None => f.keys \subseteq Keys /\ GoodSince(f.keys, f.start)
  /\ cache # None => /\ cache.expires \in Nat /\ cache.expires - CacheTime \in 0..now
                     /\ cache.keys \subseteq Keys /\ GoodSince(cache.keys, cache.expires - CacheTime)

AccessInv == RowsInv /\ CallbackInv /\ OneLiveSession /\ OutsideInv

-----------------------------------------------------------------------------
(* Steps of its parts *)

\* Revoking changes nothing but whether a row is revoked, and revives none.
LEMMA RevokedRows ==
  ASSUME RowsInv, NEW I, NEW t \in Nat
  PROVE  /\ Revoked(I, t) \in Seq(SessionRow) /\ DOMAIN Revoked(I, t) = DOMAIN sessions
         /\ Len(Revoked(I, t)) = Len(sessions)
         /\ \A i \in DOMAIN sessions :
              /\ Revoked(I, t)[i].user = sessions[i].user
              /\ Revoked(I, t)[i].created = sessions[i].created
              /\ Revoked(I, t)[i].expires = sessions[i].expires
              /\ Revoked(I, t)[i].revoked = None => sessions[i].revoked = None /\ i \notin I
<1> DEFINE R == Revoked(I, t)
<1>1. DOMAIN sessions = 1..Len(sessions) /\ Len(sessions) \in Nat
  BY DEF RowsInv
<1>2. ASSUME NEW i \in DOMAIN sessions
      PROVE  /\ R[i] \in SessionRow
             /\ R[i].user = sessions[i].user /\ R[i].created = sessions[i].created
             /\ R[i].expires = sessions[i].expires
             /\ R[i].revoked = None => sessions[i].revoked = None /\ i \notin I
  <2>1. sessions[i] \in SessionRow
    BY <1>1 DEF RowsInv
  <2>2. CASE i \in I /\ sessions[i].revoked = None
    <3>1. R[i] = [sessions[i] EXCEPT !.revoked = t]
      BY <2>2 DEF Revoked
    <3>2. QED BY <2>1, <3>1 DEF SessionRow, Time
  <2>3. CASE ~(i \in I /\ sessions[i].revoked = None)
    BY <2>1, <2>3 DEF Revoked
  <2>4. QED BY <2>2, <2>3
<1>3. R = [i \in 1..Len(sessions) |-> R[i]] /\ DOMAIN R = DOMAIN sessions
  BY <1>1 DEF Revoked
<1>4. R \in Seq(SessionRow) /\ Len(R) = Len(sessions)
  <2>1. R \in [1..Len(sessions) -> SessionRow]
    BY <1>1, <1>2, <1>3
  <2> HIDE DEF R
  <2>2. QED BY <1>1, <2>1, SeqDef, LenProperties
<1>5. QED BY <1>2, <1>3, <1>4

\* So do the steps that revoke: by logout, by an administrator, by expiry.
LEMMA RevokingStep ==
  ASSUME AccessInv, NEW I, sessions' = Revoked(I, now) \/ UNCHANGED sessions,
         UNCHANGED <<now, attempts, callbacks, member, withdrawn, published, cache, fetches>>
  PROVE  AccessInv'
<1>1. /\ RowsInv'
      /\ DOMAIN sessions' = DOMAIN sessions
      /\ \A i \in DOMAIN sessions :
           /\ sessions'[i].user = sessions[i].user
           /\ \A t : Live(i, t)' => Live(i, t)
  <2>1. CASE sessions' = Revoked(I, now)
    BY <2>1, RevokedRows DEF AccessInv, RowsInv, Live
  <2>2. CASE UNCHANGED sessions
    BY <2>2 DEF AccessInv, RowsInv, Live
  <2>3. QED BY <2>1, <2>2
<1>2. OneLiveSession'
  BY <1>1 DEF AccessInv, OneLiveSession, Live
<1>3. CallbackInv'
  BY <1>1 DEF AccessInv, CallbackInv, Found, Live
<1>4. OutsideInv'
  BY DEF AccessInv, OutsideInv, GoodSince
<1>5. QED BY <1>1, <1>2, <1>3, <1>4 DEF AccessInv

\* Steps that leave sessions and handlers alone.
LEMMA KeyStep ==
  ASSUME AccessInv, OutsideInv', UNCHANGED <<now, sessions, callbacks, attempts>>
  PROVE  AccessInv'
BY DEF AccessInv, RowsInv, OneLiveSession, Live, CallbackInv, Found

\* Steps of a handler that do not reach the insert.
LEMMA HandlerStep ==
  ASSUME AccessInv, NEW c \in callbacks, NEW d, Step(c, d),
         d.user \in Users, DOMAIN d = DOMAIN c, d.role \in ConsoleRole \cup {None},
         d.step \in {"lock", "insert", "answer"} => d.vnow \in 0..now,
         d.step # "insert",
         UNCHANGED <<now, sessions, attempts, member, published, withdrawn, cache, fetches>>
  PROVE  AccessInv'
<1>1. CallbackInv'
  BY DEF AccessInv, CallbackInv, Step, Found, Live
<1>2. QED BY <1>1 DEF AccessInv, RowsInv, OneLiveSession, Live, OutsideInv, GoodSince

LEMMA OverStep ==
  ASSUME AccessInv, NEW c \in callbacks, Over(c),
         UNCHANGED <<now, sessions, attempts, member, published, withdrawn, cache, fetches>>
  PROVE  AccessInv'
<1> DEFINE d == [c EXCEPT !.step = "over", !.role = None, !.vnow = None, !.rows = {}]
<1>1. /\ d.user = c.user /\ c.user \in Users /\ DOMAIN d = DOMAIN c /\ d.step = "over"
      /\ d.role = None
  BY DEF AccessInv, CallbackInv
<1>2. Step(c, d)
  BY DEF Over
<1> HIDE DEF d
<1>3. QED BY <1>1, <1>2, HandlerStep

\* With the lock, the sessions to replace are those that are live at the clock.
LEMMA ReplaceStep ==
  ASSUME AccessInv, NEW c \in callbacks, Replace(c)
  PROVE  AccessInv'
<1> DEFINE rows == {i \in DOMAIN sessions : sessions[i].user = c.user /\ Live(i, c.vnow)}
           e == [c EXCEPT !.step = "insert", !.rows = rows]
<1>1. CASE Over(c)
  BY <1>1, OverStep DEF Replace, jwks, guild
<1>2. CASE Step(c, e)
  <2>1. /\ e.user = c.user /\ DOMAIN e = DOMAIN c /\ e.step = "insert" /\ e.rows = rows
        /\ e.vnow = c.vnow /\ e.role = c.role
    BY DEF AccessInv, CallbackInv
  <2>2. c.step = "lock" /\ ~Locked(c.user) /\ UNCHANGED <<now, sessions, attempts>>
    BY DEF Replace
  <2>3. Found(e)
    BY <2>1 DEF Found
  <2> HIDE DEF e, rows
  <2>4. CallbackInv'
    BY <1>2, <2>1, <2>2, <2>3 DEF AccessInv, CallbackInv, Step, Found, Live, Locked
  <2>5. QED BY <2>2, <2>4 DEF AccessInv, RowsInv, OneLiveSession, Live, OutsideInv, GoodSince, Replace, jwks, guild
<1>3. QED BY <1>1, <1>2 DEF Replace

\* The new session is the only live one of its user: what was live when the clock was
\* read has been found, and nothing has been signed in since.
LEMMA InsertStep ==
  ASSUME AccessInv, NEW c \in callbacks, Insert(c)
  PROVE  AccessInv'
<1> DEFINE n == Len(sessions) + 1
           R == Revoked(c.rows, c.vnow)
           row == [user |-> c.user, role |-> c.role, created |-> c.vnow,
                   expires |-> c.vnow + SessionTtl, revoked |-> None]
           e == [c EXCEPT !.step = "answer", !.rows = {n}]
<1>1. /\ c.step = "insert" /\ sessions' = Append(R, row) /\ Step(c, e)
      /\ UNCHANGED <<now, attempts, member, published, withdrawn, cache, fetches>>
  BY DEF Insert, jwks, guild
<1>2. c.vnow \in 0..now /\ c.vnow \in Nat /\ row \in SessionRow /\ Found(c) /\ c.user \in Users
  BY <1>1 DEF AccessInv, CallbackInv, SessionRow, Time, RowsInv
<1>3. /\ e.user = c.user /\ DOMAIN e = DOMAIN c /\ e.step = "answer" /\ e.role = c.role
      /\ e.vnow = c.vnow
  BY DEF AccessInv, CallbackInv
<1>4. /\ R \in Seq(SessionRow) /\ DOMAIN R = DOMAIN sessions /\ Len(R) = Len(sessions)
      /\ \A i \in DOMAIN sessions :
           /\ R[i].user = sessions[i].user /\ R[i].created = sessions[i].created
           /\ R[i].expires = sessions[i].expires
           /\ R[i].revoked = None => sessions[i].revoked = None /\ i \notin c.rows
  BY <1>2, RevokedRows DEF AccessInv
<1>5. row.user = c.user /\ row.created = c.vnow /\ row.expires = c.vnow + SessionTtl
  OBVIOUS
<1> HIDE DEF R, row, e
<1>6. /\ sessions' \in Seq(SessionRow)
      /\ DOMAIN sessions' = DOMAIN sessions \cup {n} /\ n \notin DOMAIN sessions
      /\ sessions'[n] = row
      /\ \A i \in DOMAIN sessions : sessions'[i] = R[i]
  <2>1. /\ Append(R, row) \in Seq(SessionRow) /\ Len(Append(R, row)) = Len(R) + 1
        /\ \A i \in 1..Len(R) : Append(R, row)[i] = R[i]
        /\ Append(R, row)[Len(R) + 1] = row
    BY <1>2, <1>4, AppendProperties
  <2>2. DOMAIN sessions = 1..Len(sessions) /\ Len(sessions) \in Nat
    BY DEF AccessInv, RowsInv
  <2>3. DOMAIN Append(R, row) = 1..(Len(sessions) + 1)
    BY <1>4, <2>1, LenProperties
  <2>4. QED BY <1>1, <1>4, <2>1, <2>2, <2>3
<1>7. RowsInv'
  <2>1. \A i \in DOMAIN sessions' : sessions'[i].expires = sessions'[i].created + SessionTtl
    <3>1. ASSUME NEW i \in DOMAIN sessions PROVE sessions'[i].expires = sessions'[i].created + SessionTtl
      <4>1. sessions[i].expires = sessions[i].created + SessionTtl
        BY DEF AccessInv, RowsInv
      <4>2. QED BY <1>4, <1>6, <4>1
    <3>2. QED BY <1>5, <1>6, <3>1
  <2>2. QED BY <1>1, <1>6, <2>1 DEF AccessInv, RowsInv
<1>8. \A i \in DOMAIN sessions : \A t :
        Live(i, t)' => Live(i, t) /\ i \notin c.rows /\ sessions'[i].user = sessions[i].user
  BY <1>4, <1>6 DEF Live
<1>9. OneLiveSession'
  <2>1. \A i \in DOMAIN sessions : sessions'[i].user = c.user => ~Live(i, now)'
    <3> SUFFICES ASSUME NEW i \in DOMAIN sessions, sessions'[i].user = c.user, Live(i, now)' PROVE FALSE
      OBVIOUS
    <3>1. Live(i, now) /\ i \notin c.rows /\ sessions[i].user = c.user
      BY <1>8, <1>1
    <3>2. sessions[i].expires \in Nat /\ now \in Nat
      <4>1. sessions[i] \in SessionRow
        BY DEF AccessInv, RowsInv
      <4>2. QED BY <4>1 DEF AccessInv, RowsInv, SessionRow
    <3>3. Live(i, c.vnow)
      BY <1>2, <3>1, <3>2 DEF Live
    <3>4. QED BY <1>2, <3>1, <3>3 DEF Found
  <2>2. SUFFICES ASSUME NEW i \in DOMAIN sessions', NEW j \in DOMAIN sessions',
                        sessions'[i].user = sessions'[j].user, Live(i, now)', Live(j, now)'
                 PROVE  i = j
    BY <1>1 DEF OneLiveSession, Live
  <2>3. CASE i \in DOMAIN sessions /\ j \in DOMAIN sessions
    BY <1>1, <1>8, <2>2, <2>3 DEF AccessInv, OneLiveSession
  <2>4. CASE i = n \/ j = n
    BY <1>5, <1>6, <2>1, <2>2, <2>4
  <2>5. QED BY <1>6, <2>2, <2>3, <2>4
<1>10. CallbackInv'
  <2>1. \A d \in callbacks' : d = e \/ (d \in callbacks /\ (d.step = "insert" => d.user # c.user))
    BY <1>1 DEF AccessInv, CallbackInv, Step
  <2>2. \A d \in callbacks' : d.step = "insert" => Found(d)'
    <3> SUFFICES ASSUME NEW d \in callbacks', d.step = "insert", NEW i \in DOMAIN sessions',
                        sessions'[i].user = d.user, Live(i, d.vnow)'
                 PROVE  i \in d.rows
      BY DEF Found, Live
    <3>1. d \in callbacks /\ d.user # c.user
      BY <1>3, <2>1
    <3>2. i \in DOMAIN sessions
      BY <1>5, <1>6, <3>1
    <3>3. QED BY <1>8, <3>1, <3>2 DEF AccessInv, CallbackInv, Found
  <2>3. QED BY <1>1, <1>2, <1>3, <2>1, <2>2 DEF AccessInv, CallbackInv
<1>11. QED BY <1>1, <1>7, <1>9, <1>10 DEF AccessInv, OutsideInv, GoodSince

LEMMA AccessInitInv == AccessInit => AccessInv
BY DEF AccessInit, AccessInv, RowsInv, CallbackInv, OneLiveSession, OutsideInv, Time

\* Every set of roles that is not empty has a highest one.
LEMMA ResolvedRole ==
  ASSUME NEW roles \in RoleSets
  PROVE  ResolveRole(roles) \in ConsoleRole \cup {None}
<1>1. Rank("viewer") = 1 /\ Rank("operator") = 2 /\ Rank("administrator") = 3 /\ Rank("owner") = 4
  BY DEF Rank, RoleOrder
<1>2. roles \subseteq ConsoleRole
  OBVIOUS
<1>3. ASSUME roles # {} PROVE \E r \in roles : \A q \in roles : Rank(q) <= Rank(r)
  <2>1. PICK r \in roles : \/ r = "owner"
                           \/ r = "administrator" /\ "owner" \notin roles
                           \/ r = "operator" /\ {"owner", "administrator"} \cap roles = {}
                           \/ r = "viewer" /\ roles = {"viewer"}
    BY <1>2, <1>3 DEF ConsoleRole
  <2>2. \A q \in roles : Rank(q) <= Rank(r)
    BY <1>1, <1>2, <2>1 DEF ConsoleRole
  <2>3. QED BY <2>2
<1>4. QED BY <1>2, <1>3 DEF ResolveRole

LEMMA AccessNextInv == AccessInv /\ [AccessNext]_accessVars => AccessInv'
<1> SUFFICES ASSUME AccessInv, [AccessNext]_accessVars PROVE AccessInv'
  OBVIOUS
<1> USE DEF AccessInv
<1>1. CASE UNCHANGED accessVars
  BY <1>1, KeyStep DEF accessVars, guild, signin, jwks, OutsideInv, GoodSince
<1>2. CASE Tick
  <2>1. now \in Nat /\ now' = now + 1
    BY <1>2 DEF Tick, RowsInv
  <2>2. UNCHANGED <<sessions, attempts, callbacks, member, published, withdrawn, cache, fetches>>
    BY <1>2 DEF Tick, guild, signin, jwks
  <2>3. OneLiveSession'
    <3>1. ASSUME NEW i \in DOMAIN sessions, Live(i, now)' PROVE Live(i, now)
      <4>1. sessions[i] \in SessionRow
        BY DEF RowsInv
      <4>2. QED BY <2>1, <2>2, <3>1, <4>1 DEF Live, SessionRow
    <3>2. QED BY <2>2, <3>1 DEF OneLiveSession
  <2>4. RowsInv' /\ CallbackInv'
    BY <2>1, <2>2 DEF RowsInv, CallbackInv, Found, Live
  <2>5. OutsideInv'
    BY <2>1, <2>2 DEF OutsideInv, GoodSince
  <2>6. QED BY <2>3, <2>4, <2>5
<1>3. CASE Expire
  BY <1>3, RevokingStep DEF Expire, jwks, guild
<1>4. CASE FetchKeys
  <2>1. OutsideInv'
    BY <1>4 DEF FetchKeys, OutsideInv, GoodSince, RowsInv, guild
  <2>2. QED BY <1>4, <2>1, KeyStep DEF FetchKeys, signin, guild
<1>5. ASSUME NEW u \in Users, NEW s \in Slots, Start(u, s) PROVE AccessInv'
  <2>1. attempts' = attempts \cup {Attempt(u, s)} /\ Attempt(u, s).user = u
    BY <1>5 DEF Start, Attempt
  <2>2. UNCHANGED <<now, sessions, callbacks, member, published, withdrawn, cache, fetches>>
    BY <1>5 DEF Start, jwks, guild
  <2>3. CallbackInv'
    BY <2>1, <2>2 DEF CallbackInv, Found, Live
  <2>4. QED BY <2>2, <2>3 DEF RowsInv, OneLiveSession, Live, OutsideInv, GoodSince
<1>6. ASSUME NEW a \in attempts, Callback(a) PROVE AccessInv'
  <2> DEFINE c == [id |-> a.id, user |-> a.user, step |-> "identity",
                   role |-> None, vnow |-> None, rows |-> {}]
  <2>1. callbacks' = callbacks \cup {c}
    BY <1>6 DEF Callback
  <2>2. UNCHANGED <<now, sessions, attempts, member, published, withdrawn, cache, fetches>>
    BY <1>6 DEF Callback, jwks, guild
  <2>3. CallbackInv'
    BY <2>1, <2>2 DEF CallbackInv, Found, Live
  <2>4. QED BY <2>2, <2>3 DEF RowsInv, OneLiveSession, Live, OutsideInv, GoodSince
<1>7. ASSUME NEW c \in callbacks, Identity(c) PROVE AccessInv'
  <2> DEFINE d == [c EXCEPT !.step = "create", !.role = ResolveRole(member[c.user])]
  <2>1. UNCHANGED <<now, sessions, attempts, member, published, withdrawn, cache, fetches>>
    BY <1>7 DEF Identity, jwks, guild
  <2>2. ResolveRole(member[c.user]) \in ConsoleRole \cup {None}
    BY ResolvedRole DEF CallbackInv, OutsideInv
  <2>3. /\ d.user = c.user /\ c.user \in Users /\ DOMAIN d = DOMAIN c /\ d.step = "create"
        /\ d.role \in ConsoleRole \cup {None}
    BY <2>2 DEF CallbackInv
  <2>4. Over(c) \/ Step(c, d)
    BY <1>7 DEF Identity
  <2> HIDE DEF d
  <2>5. CASE Step(c, d)
    BY <2>1, <2>3, <2>5, HandlerStep
  <2>6. QED BY <2>1, <2>4, <2>5, OverStep
<1>8. ASSUME NEW c \in callbacks, Create(c) PROVE AccessInv'
  <2> DEFINE d == [c EXCEPT !.step = "lock", !.vnow = now]
  <2>1. UNCHANGED <<now, sessions, attempts, member, published, withdrawn, cache, fetches>>
    BY <1>8 DEF Create, jwks, guild
  <2>2. /\ d.user = c.user /\ c.user \in Users /\ DOMAIN d = DOMAIN c /\ d.step = "lock"
        /\ d.role = c.role /\ c.role \in ConsoleRole \cup {None} /\ d.vnow \in 0..now
    BY DEF CallbackInv, RowsInv
  <2>3. Step(c, d)
    BY <1>8 DEF Create
  <2> HIDE DEF d
  <2>4. QED BY <2>1, <2>2, <2>3, HandlerStep
<1>9. ASSUME NEW c \in callbacks, Replace(c) PROVE AccessInv'
  BY <1>9, ReplaceStep
<1>10. ASSUME NEW c \in callbacks, Insert(c) PROVE AccessInv'
  BY <1>10, InsertStep
<1>11. ASSUME NEW c \in callbacks, NEW arrives \in BOOLEAN, Answer(c, arrives) PROVE AccessInv'
  BY <1>11, OverStep DEF Answer, jwks, guild
<1>12. ASSUME NEW u \in Users, NEW stored \in BOOLEAN, Logout(u, stored) PROVE AccessInv'
  BY <1>12, RevokingStep DEF Logout, jwks, guild
<1>13. ASSUME NEW u \in Users, NEW i \in DOMAIN sessions, AdminRevoke(u, i) PROVE AccessInv'
  BY <1>13, RevokingStep DEF AdminRevoke, jwks, guild
<1>14. ASSUME NEW u \in Users, NEW roles \in RoleSets, ChangeRoles(u, roles) PROVE AccessInv'
  <2>1. OutsideInv'
    BY <1>14 DEF ChangeRoles, jwks, OutsideInv, GoodSince
  <2>2. QED BY <1>14, <2>1, KeyStep DEF ChangeRoles, signin
<1>15. ASSUME NEW f \in fetches, Serve(f) PROVE AccessInv'
  <2> DEFINE g == [f EXCEPT !.keys = published]
  <2>1. fetches' = (fetches \ {f}) \cup {g}
    BY <1>15 DEF Serve
  <2>2. DOMAIN g = DOMAIN f /\ g.start = f.start /\ g.keys = published
    BY DEF OutsideInv
  <2>3. UNCHANGED <<now, sessions, attempts, callbacks, member, published, withdrawn, cache>>
    BY <1>15 DEF Serve, signin, guild
  <2> HIDE DEF g
  <2>4. OutsideInv'
    BY <2>1, <2>2, <2>3 DEF OutsideInv, GoodSince
  <2>5. QED BY <2>3, <2>4, KeyStep
<1>16. ASSUME NEW f \in fetches, Fetched(f) \/ FetchFailed(f) PROVE AccessInv'
  <2>1. UNCHANGED <<now, sessions, attempts, callbacks, member, published, withdrawn>>
    BY <1>16 DEF Fetched, FetchFailed, signin, guild
  <2>2. OutsideInv'
    <3>1. fetches' = fetches \ {f}
      BY <1>16 DEF Fetched, FetchFailed
    <3>2. CASE UNCHANGED cache
      BY <2>1, <3>1, <3>2 DEF OutsideInv, GoodSince
    <3>3. CASE f.keys # None /\ cache' = [keys |-> f.keys, expires |-> f.start + CacheTime]
      <4>1. /\ cache'.keys = f.keys /\ cache'.expires - CacheTime = f.start
            /\ cache'.expires \in Nat
            /\ f.start \in 0..now /\ f.keys \subseteq Keys /\ GoodSince(f.keys, f.start)
        BY <3>3 DEF OutsideInv, RowsInv
      <4>2. QED BY <2>1, <3>1, <4>1 DEF OutsideInv, GoodSince
    <3>4. QED BY <1>16, <3>2, <3>3 DEF Fetched, FetchFailed
  <2>3. QED BY <2>1, <2>2, KeyStep
<1>17. ASSUME NEW k \in Keys, WithdrawKey(k) PROVE AccessInv'
  <2>1. /\ withdrawn' = [withdrawn EXCEPT ![k] = now] /\ published' = published \ {k}
        /\ UNCHANGED <<now, sessions, attempts, callbacks, member, cache, fetches>>
    BY <1>17 DEF WithdrawKey, signin, jwks
  <2>2. now \in Nat
    BY DEF RowsInv
  <2>3. \A keys, t : t \in 0..now /\ GoodSince(keys, t) => GoodSince(keys, t)'
    BY <2>1, <2>2 DEF GoodSince, OutsideInv
  <2>4. OutsideInv'
    BY <2>1, <2>2, <2>3 DEF OutsideInv, Time
  <2>5. QED BY <2>1, <2>4, KeyStep
<1>18. QED
  BY <1>1, <1>2, <1>3, <1>4, <1>5, <1>6, <1>7, <1>8, <1>9, <1>10, <1>11, <1>12, <1>13, <1>14,
     <1>15, <1>16, <1>17 DEF AccessNext

-----------------------------------------------------------------------------
(* Theorems *)

\* create_discord_console_session replaces a user's session under the user's lock: no user
\* ever has two live sessions, however many sign-ins, sign-outs and revocations interleave.
THEOREM OneSessionPerUser == AccessSpec => []OneLiveSession
<1>1. AccessInv => OneLiveSession
  BY DEF AccessInv
<1>2. QED BY <1>1, AccessInitInv, AccessNextInv, PTL DEF AccessSpec

\* A session that resolves was made less than the time to live ago.
LEMMA SessionIsBacked ==
  ASSUME AccessInv, NEW q \in Requests, ResolveSession(q)
  PROVE  Backed(q)
<1>1. q.cookie \in DOMAIN sessions /\ q.cookie # None /\ Live(q.cookie, now)
  BY DEF ResolveSession, Requests
<1>2. sessions[q.cookie] \in SessionRow /\ now \in Nat
  BY <1>1 DEF AccessInv, RowsInv
<1>3. sessions[q.cookie].expires = sessions[q.cookie].created + SessionTtl
  BY <1>1 DEF AccessInv, RowsInv
<1>4. now - sessions[q.cookie].created < SessionTtl
  BY <1>1, <1>2, <1>3 DEF Live, SessionRow
<1>5. QED BY <1>1, <1>4 DEF Backed, Live

\* A key in the valid cache was published when the fetch began, less than the cache time ago.
LEMMA TokenIsBacked ==
  ASSUME AccessInv, NEW q \in Requests, TokenVerified(q), q.token.user \in Registered
  PROVE  Backed(q)
<1> DEFINE k == q.token.key
<1>1. q.token # None /\ k \in Keys /\ cache # None /\ k \in cache.keys
  BY DEF TokenVerified, Requests, CacheValid
<1>2. withdrawn[k] \in Time
  BY <1>1 DEF AccessInv, OutsideInv
<1>3. ASSUME withdrawn[k] \in Nat PROVE now - withdrawn[k] < CacheTime
  <2>1. /\ cache.expires \in Nat /\ cache.expires - CacheTime \in 0..now
        /\ withdrawn[k] >= cache.expires - CacheTime
    BY <1>1, <1>3 DEF AccessInv, OutsideInv, GoodSince
  <2>2. cache.expires > now
    BY DEF TokenVerified, CacheValid
  <2>3. now \in Nat
    BY DEF AccessInv, RowsInv
  <2>4. QED BY <1>3, <2>1, <2>2, <2>3
<1>4. QED BY <1>1, <1>2, <1>3 DEF Backed, Time

\* The proxy and the role checks let nothing through that neither of the two backs.
LEMMA AccessInvBacked == AccessInv => AccessIsBacked
<1> SUFFICES ASSUME AccessInv, NEW q \in Requests, ~Backed(q), NEW m \in [discord : Mode, access : Mode]
             PROVE  /\ ~MayAct(m, q)
                    /\ MayRead(m, q) => {m.discord, m.access} \subseteq {"disabled", "report"}
  BY DEF AccessIsBacked
<1> DEFINE h == Proxy(m, q)
<1>1. ~ResolveSession(q)
  BY SessionIsBacked
<1>2. TokenVerified(q) => q.token.user \notin Registered
  BY TokenIsBacked
<1>3. m.discord \in Mode /\ m.access \in Mode
  OBVIOUS
<1>4. \/ h = None
      \/ /\ h.mode = "disabled" \/ h.user \notin Registered
         /\ m.discord \in {"disabled", "report"} =>
              \/ m.access \in {"disabled", "report"}
              \/ h.mode = "enforce"
  BY <1>2, <1>3 DEF Proxy, Mode
<1> HIDE DEF h
<1>5. h # None => ~HasRole(m, q, h)
  BY <1>1, <1>4 DEF HasRole
<1>6. DiscordMode(m) # "enforce" => m.discord \in {"disabled", "report"}
  BY <1>3 DEF DiscordMode, Mode
<1>7. QED BY <1>4, <1>5, <1>6 DEF MayAct, MayRead, h

\* Whatever the two mode variables are set to, no action, and while one of them is enforced
\* or misspelt no page, is open to a request that neither a session within its time to live
\* nor a token of a registered user, signed with a key withdrawn no longer ago than the cache
\* keeps it, stands behind.  (proxy, getConsoleSession, canReadConsoleDuringRollout.)
THEOREM EveryAccessIsBacked == AccessSpec => []AccessIsBacked
BY AccessInvBacked, AccessInitInv, AccessNextInv, PTL DEF AccessSpec

-----------------------------------------------------------------------------
(* The operation console *)

HIDE AccessAssumption
USE OperationConsoleAssumption

\* A nonce has given a lease only if its claim has passed the ledger and is over.
ConsoleInv ==
  /\ claiming \subseteq ledger
  /\ leases \in [1..MaxClaims -> Nat]
  /\ \A n \in 1..MaxClaims : leases[n] = 0 \/ (leases[n] = 1 /\ n \in ledger \ claiming)

LEMMA ConsoleInitInv == ConsoleInit => ConsoleInv
BY DEF ConsoleInit, ConsoleInv

\* Whatever leaves the ledger, the claims and the leases alone.
LEMMA OtherStep == ConsoleInv /\ UNCHANGED <<ledger, claiming, leases>> => ConsoleInv'
BY DEF ConsoleInv

LEMMA ConsoleNextInv == ConsoleInv /\ [ConsoleNext]_consoleVars => ConsoleInv'
<1> SUFFICES ASSUME ConsoleInv, [ConsoleNext]_consoleVars PROVE ConsoleInv'
  OBVIOUS
<1>1. CASE UNCHANGED consoleVars
  BY <1>1, OtherStep DEF consoleVars, agent
<1>2. ASSUME NEW t \in Tab,
             \/ Open(t) \/ Interval(t) \/ Resolve(t) \/ Announce(t) \/ EnqueueTimesOut(t) \/ LosePost(t)
             \/ \E i \in 0..MaxPolls : AnswerGet(t, i) \/ Deliver(t, i) \/ LoseGet(t, i)
             \/ \E op \in LifecycleOps : Submit(t, op)
             \/ \E v \in BOOLEAN : SetVisible(t, v)
      PROVE  ConsoleInv'
  BY <1>2, OtherStep DEF Open, Interval, Resolve, Announce, EnqueueTimesOut, LosePost, AnswerGet,
     Deliver, LoseGet, Submit, SetVisible, agent
<1>3. ASSUME NEW x, Begin(x) \/ Enqueue(x)
      PROVE  ConsoleInv'
  BY <1>3, OtherStep DEF Begin, Enqueue, agent
<1>4. CASE SendClaim
  BY <1>4, OtherStep DEF SendClaim
<1>5. ASSUME NEW n \in 1..MaxClaims, Accept(n)
      PROVE  ConsoleInv'
  BY <1>5 DEF Accept, ConsoleInv
<1>6. ASSUME NEW n \in 1..MaxClaims, Claim(n)
      PROVE  ConsoleInv'
  <2>1. n \in claiming /\ n \in ledger /\ leases[n] = 0
    BY <1>6 DEF Claim, ConsoleInv
  <2>2. claiming' = claiming \ {n} /\ ledger' = ledger
    BY <1>6 DEF Claim
  <2>3. UNCHANGED leases \/ leases' = [leases EXCEPT ![n] = @ + 1]
    BY <1>6 DEF Claim
  <2>4. QED BY <2>1, <2>2, <2>3 DEF ConsoleInv
<1>7. ASSUME NEW n \in 1..MaxClaims, ClaimFails(n)
      PROVE  ConsoleInv'
  BY <1>7 DEF ClaimFails, ConsoleInv
<1>8. ASSUME NEW j, NEW to, Report(j, to)
      PROVE  ConsoleInv'
  BY <1>8, OtherStep DEF Report, agent
<1>9. ASSUME NEW s \in Session, EndSession(s) \/ SignIn(s)
      PROVE  ConsoleInv'
  BY <1>9, OtherStep DEF EndSession, SignIn, agent
<1>10. QED BY <1>1, <1>2, <1>3, <1>4, <1>5, <1>6, <1>7, <1>8, <1>9 DEF ConsoleNext

\* Claims that arrive twice, late, or while another is under way lease at most one
\* job each (accept_operation_agent_request).
THEOREM OneLeasePerClaim == ConsoleSpec => []LeasesWereAsked
<1>1. ConsoleInv => LeasesWereAsked
  BY DEF ConsoleInv, LeasesWereAsked
<1>2. QED BY <1>1, ConsoleInitInv, ConsoleNextInv, PTL DEF ConsoleSpec
=============================================================================
