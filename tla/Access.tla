------------------------------ MODULE Access ------------------------------
(***************************************************************************)
(* Who may use the console: the Discord sign-in with its sessions, the     *)
(* Cloudflare Access tokens with the cached signing keys, and the proxy    *)
(* and role checks every page and API goes through.                        *)
(*                                                                         *)
(* A sign-in is a chain of awaits (state cookie, code exchange, identity,  *)
(* session RPC, answer), and several run at once: tabs of one browser,     *)
(* sign-outs and revocations by an administrator.                          *)
(***************************************************************************)
EXTENDS Integers, Sequences, FiniteSets

CONSTANTS
  None,             \* null
  Users,            \* Discord users, each with one browser; also the Access identities
  Registered,       \* users with an active row in console_users
  RoleSets,         \* what a member's Discord roles can map to
  Slots,            \* OAuth cookie slots (32)
  Keys,             \* signing keys of Cloudflare Access
  Configs,          \* the settings of the two mode variables
  SessionTtl,       \* IVRM_DISCORD_SESSION_TTL_SECONDS
  StateMaxAge,      \* OAUTH_STATE_MAX_AGE_SECONDS (600)
  CacheTime,        \* JWKS_CACHE_MILLISECONDS (5 min)
  FetchTimeout,     \* of a request for the signing keys (5 s)
  MaxTime,          \* bound: the clock
  MaxAttempts,      \* bound: sign-ins
  MaxFetches,       \* bound: requests for the signing keys under way
  MaxChanges        \* bound: changes of member roles and of signing keys

ConsoleRole == {"viewer", "operator", "administrator", "owner"}
RoleOrder == <<"viewer", "operator", "administrator", "owner">>
Mode == {"disabled", "report", "enforce", "invalid"}

ASSUME AccessAssumption ==
  /\ None \notin Users /\ None \notin Nat
  /\ Registered \subseteq Users /\ RoleSets \subseteq SUBSET ConsoleRole
  /\ Configs \subseteq [discord : Mode, access : Mode]
  /\ FetchTimeout < CacheTime
  /\ \A c \in {SessionTtl, StateMaxAge, CacheTime, FetchTimeout, MaxTime, MaxAttempts,
               MaxFetches, MaxChanges} : c \in Nat

VARIABLES
  now, config, changes,
  member,     \* a user's roles in the guild, as console roles
  attempts,   \* sign-ins started: [id, user, slot, at]
  jar,        \* a browser's OAuth cookie slots: the id whose fingerprint each holds
  callbacks,  \* callback handlers under way
  sessions,   \* discord_console_sessions
  cookie,     \* a browser's session cookie: an index of sessions, or None
  published,  \* the keys Cloudflare publishes
  withdrawn,  \* when a key was withdrawn, or None
  cache,      \* jwksCache: [keys, expires], or None
  fetches     \* requests for the keys under way: [start, keys]

guild == <<member, changes, published, withdrawn>>
signin == <<attempts, jar, callbacks, sessions, cookie>>
jwks == <<cache, fetches>>
accessVars == <<now, config, guild, signin, jwks>>

AccessInit ==
  /\ now = 0 /\ config \in Configs /\ changes = 0
  /\ member \in [Users -> RoleSets]
  /\ attempts = {} /\ jar = [u \in Users |-> [s \in Slots |-> None]]
  /\ callbacks = {} /\ sessions = <<>> /\ cookie = [u \in Users |-> None]
  /\ published = Keys /\ withdrawn = [k \in Keys |-> None]
  /\ cache = None /\ fetches = {}

Rank(r) == CHOOSE i \in 1..4 : RoleOrder[i] = r

\* resolveDiscordConsoleRole: the highest role.
ResolveRole(roles) ==
  IF roles = {} THEN None ELSE CHOOSE r \in roles : \A q \in roles : Rank(q) <= Rank(r)

-----------------------------------------------------------------------------
(* Discord sign-in *)

DiscordOn == config.discord \in {"report", "enforce"}

\* createDiscordOAuthAttempt: a signed state, whose fingerprint picks the cookie's slot.
Attempt(u, s) == [id |-> Cardinality(attempts) + 1, user |-> u, slot |-> s, at |-> now]

\* GET /api/auth/discord/start.
Start(u, s) ==
  /\ DiscordOn /\ Cardinality(attempts) < MaxAttempts
  /\ attempts' = attempts \cup {Attempt(u, s)}
  /\ jar' = [jar EXCEPT ![u][s] = Attempt(u, s).id]
  /\ UNCHANGED <<now, config, guild, callbacks, sessions, cookie, jwks>>

\* verifyDiscordOAuthAttempt.  The signature is that of the server's own state.
StateValid(a) == jar[a.user][a.slot] = a.id /\ now - a.at <= StateMaxAge

\* exchangeDiscordAuthorizationCode: Discord takes a code once.
CodeSpent(a) == \E c \in callbacks : c.id = a.id

\* GET /api/auth/discord/callback up to the exchange of the code.
Callback(a) ==
  /\ StateValid(a) /\ ~CodeSpent(a)
  /\ callbacks' = callbacks \cup {[id |-> a.id, user |-> a.user, step |-> "identity",
                                   role |-> None, vnow |-> None, rows |-> {}]}
  /\ UNCHANGED <<now, config, guild, attempts, jar, sessions, cookie, jwks>>

Step(c, d) == callbacks' = (callbacks \ {c}) \cup {d}

\* A handler keeps its record when it is over: the code is spent.
Over(c) == Step(c, [c EXCEPT !.step = "over", !.role = None, !.vnow = None, !.rows = {}])

\* fetchDiscordIdentity and the role check.
Identity(c) ==
  /\ c.step = "identity"
  /\ LET role == ResolveRole(member[c.user])
     IN IF role = None THEN Over(c)
        ELSE Step(c, [c EXCEPT !.step = "create", !.role = role])
  /\ UNCHANGED <<now, config, guild, attempts, jar, sessions, cookie, jwks>>

\* create_discord_console_session reads the clock, then waits for the user's lock.
Create(c) ==
  /\ c.step = "create"
  /\ Step(c, [c EXCEPT !.step = "lock", !.vnow = now])
  /\ UNCHANGED <<now, config, guild, attempts, jar, sessions, cookie, jwks>>

Live(i, t) == sessions[i].revoked = None /\ sessions[i].expires > t

Locked(u) == \E d \in callbacks : d.user = u /\ d.step = "insert"

\* Mutant: no advisory lock.
ReplaceUnlocked(c) ==
  /\ c.step = "lock"
  /\ Step(c, [c EXCEPT !.step = "insert",
              !.rows = {i \in DOMAIN sessions : sessions[i].user = c.user /\ Live(i, c.vnow)}])
  /\ UNCHANGED <<now, config, guild, attempts, jar, sessions, cookie, jwks>>

\* With the lock: the sessions to replace.  A session made since the clock was read would be
\* revoked before it was created, which the table's check refuses: the sign-in fails.
Replace(c) ==
  /\ c.step = "lock" /\ ~Locked(c.user)
  /\ LET rows == {i \in DOMAIN sessions : sessions[i].user = c.user /\ Live(i, c.vnow)}
     IN IF \E i \in rows : sessions[i].created > c.vnow THEN Over(c)
        ELSE Step(c, [c EXCEPT !.step = "insert", !.rows = rows])
  /\ UNCHANGED <<now, config, guild, attempts, jar, sessions, cookie, jwks>>

Revoked(I, t) ==
  [i \in DOMAIN sessions |->
     IF i \in I /\ sessions[i].revoked = None THEN [sessions[i] EXCEPT !.revoked = t]
     ELSE sessions[i]]

\* The new session and the commit.
Insert(c) ==
  /\ c.step = "insert"
  /\ sessions' = Append(Revoked(c.rows, c.vnow),
                        [user |-> c.user, role |-> c.role, created |-> c.vnow,
                         expires |-> c.vnow + SessionTtl, revoked |-> None])
  /\ Step(c, [c EXCEPT !.step = "answer", !.rows = {Len(sessions) + 1}])
  /\ UNCHANGED <<now, config, guild, attempts, jar, cookie, jwks>>

\* The browser gets the cookie, or the answer is lost.
Answer(c, arrives) ==
  /\ c.step = "answer"
  /\ Over(c)
  /\ cookie' = IF arrives THEN [cookie EXCEPT ![c.user] = CHOOSE i \in c.rows : TRUE] ELSE cookie
  /\ UNCHANGED <<now, config, guild, attempts, jar, sessions, jwks>>

\* A row another transaction is about to revoke.
RowLocked(i) == \E c \in callbacks : c.step = "insert" /\ i \in c.rows

\* POST /api/auth/logout: the cookie goes even when the RPC fails.
Logout(u, stored) ==
  /\ cookie[u] # None /\ (stored => ~RowLocked(cookie[u]))
  /\ sessions' = IF stored THEN Revoked({cookie[u]}, now) ELSE sessions
  /\ cookie' = [cookie EXCEPT ![u] = None]
  /\ UNCHANGED <<now, config, guild, attempts, jar, callbacks, jwks>>

\* The revoke route and its RPC: not an owner's session, unless by an owner.
MayRevoke(u, i) ==
  /\ cookie[u] # None /\ Live(cookie[u], now)
  /\ LET role == sessions[cookie[u]].role
     IN role = "owner" \/ (role = "administrator" /\ sessions[i].role # "owner")

\* revoke_discord_console_session_by_id.
AdminRevoke(u, i) ==
  /\ MayRevoke(u, i)
  /\ sessions[i].revoked = None /\ ~RowLocked(i)
  /\ sessions' = Revoked({i}, now)
  /\ UNCHANGED <<now, config, guild, attempts, jar, callbacks, cookie, jwks>>

\* expire_discord_console_sessions.
Expire ==
  /\ \E i \in DOMAIN sessions : sessions[i].revoked = None /\ sessions[i].expires <= now
  /\ sessions' = Revoked({i \in DOMAIN sessions : sessions[i].expires <= now /\ ~RowLocked(i)}, now)
  /\ UNCHANGED <<now, config, guild, attempts, jar, callbacks, cookie, jwks>>

\* The guild's administrators change a member's roles.
ChangeRoles(u, roles) ==
  /\ DiscordOn /\ changes < MaxChanges /\ roles # member[u]
  /\ member' = [member EXCEPT ![u] = roles]
  /\ changes' = changes + 1
  /\ UNCHANGED <<now, config, published, withdrawn, signin, jwks>>

-----------------------------------------------------------------------------
(* Cloudflare Access *)

\* The proxy reaches the token check.
AccessOn == config.discord \in {"disabled", "report"} /\ config.access \in {"report", "enforce"}

CacheValid == cache # None /\ cache.expires > now

\* getSigningKeys, for a token whose key the cache does not give: the clock is read first.
FetchKeys ==
  /\ AccessOn /\ Cardinality(fetches) < MaxFetches
  /\ fetches' = fetches \cup {[start |-> now, keys |-> None]}
  /\ UNCHANGED <<now, config, guild, signin, cache>>

\* Cloudflare answers with the keys of that moment.
Serve(f) ==
  /\ f.keys = None
  /\ fetches' = (fetches \ {f}) \cup {[f EXCEPT !.keys = published]}
  /\ UNCHANGED <<now, config, guild, signin, cache>>

Fetched(f) ==
  /\ f.keys # None /\ now - f.start <= FetchTimeout
  /\ cache' = IF f.keys = {} THEN cache ELSE [keys |-> f.keys, expires |-> f.start + CacheTime]
  /\ fetches' = fetches \ {f}
  /\ UNCHANGED <<now, config, guild, signin>>

FetchFailed(f) ==
  /\ fetches' = fetches \ {f}
  /\ UNCHANGED <<now, config, guild, signin, cache>>

WithdrawKey(k) ==
  /\ AccessOn /\ k \in published /\ changes < MaxChanges
  /\ published' = published \ {k}
  /\ withdrawn' = [withdrawn EXCEPT ![k] = now]
  /\ changes' = changes + 1
  /\ UNCHANGED <<now, config, member, signin, jwks>>

Tick ==
  /\ now < MaxTime
  /\ now' = now + 1
  /\ UNCHANGED <<config, guild, signin, jwks>>

AccessNext ==
  \/ Tick \/ Expire \/ FetchKeys
  \/ \E u \in Users, s \in Slots : Start(u, s)
  \/ \E a \in attempts : Callback(a)
  \/ \E c \in callbacks : Identity(c) \/ Create(c) \/ Replace(c) \/ Insert(c)
  \/ \E c \in callbacks, arrives \in BOOLEAN : Answer(c, arrives)
  \/ \E u \in Users, stored \in BOOLEAN : Logout(u, stored)
  \/ \E u \in Users, i \in DOMAIN sessions : AdminRevoke(u, i)
  \/ \E u \in Users, roles \in RoleSets : ChangeRoles(u, roles)
  \/ \E f \in fetches : Serve(f) \/ Fetched(f) \/ FetchFailed(f)
  \/ \E k \in Keys : WithdrawKey(k)

AccessSpec == AccessInit /\ [][AccessNext]_accessVars

-----------------------------------------------------------------------------
(* One request: the session cookie it carries, if any, and the key and user of its Access      *)
(* token, if any.                                                                              *)

Requests ==
  [cookie : DOMAIN sessions \cup {None},
   token : [key : Keys, user : Users] \cup {None}]

\* verifyCloudflareAccessJwt against the cached keys.
TokenVerified(q) == q.token # None /\ CacheValid /\ q.token.key \in cache.keys

\* proxy: the headers a page sees, or None when the request ends there.
Proxy(m, q) ==
  CASE m.discord = "invalid" -> None
    [] m.discord = "enforce" -> IF q.cookie = None THEN None
                                ELSE [mode |-> "disabled", user |-> None]
    [] m.discord \in {"disabled", "report"} ->
         CASE m.access = "invalid" -> None
           [] m.access = "disabled" -> [mode |-> "disabled", user |-> None]
           [] m.access = "report" ->
                [mode |-> "report", user |-> IF TokenVerified(q) THEN q.token.user ELSE None]
           [] m.access = "enforce" ->
                IF TokenVerified(q) THEN [mode |-> "enforce", user |-> q.token.user] ELSE None

\* safeDiscordMode.
DiscordMode(m) == IF m.discord = "invalid" THEN "enforce" ELSE m.discord

\* Mutant: a session ends only by revocation.
ResolveUnrevoked(q) == q.cookie # None /\ sessions[q.cookie].revoked = None

\* resolve_discord_console_session.
ResolveSession(q) == q.cookie # None /\ Live(q.cookie, now)

\* getConsoleSession: whether the request has a role, by the Discord session first.
HasRole(m, q, h) ==
  \/ DiscordMode(m) # "disabled" /\ ResolveSession(q)
  \/ DiscordMode(m) # "enforce" /\ h.mode # "disabled" /\ h.user \in Registered

\* canReadConsoleDuringRollout behind the proxy.
MayRead(m, q) ==
  LET h == Proxy(m, q)
  IN h # None /\ (HasRole(m, q, h) \/ (DiscordMode(m) # "enforce" /\ h.mode # "enforce"))

\* canPerformConsoleAction behind the proxy.
MayAct(m, q) == LET h == Proxy(m, q) IN h # None /\ HasRole(m, q, h)

-----------------------------------------------------------------------------
(* Properties *)

\* A user never has two live sessions: a sign-in replaces the one before, whatever other
\* sign-ins, sign-outs and revocations run beside it.  (create_discord_console_session.)
OneLiveSession ==
  \A i, j \in DOMAIN sessions :
    sessions[i].user = sessions[j].user /\ Live(i, now) /\ Live(j, now) => i = j

\* Whom a request is backed by: a session that was signed in less than the time to live ago
\* and was not revoked, or a registered user whose token has a key that is published or was
\* withdrawn less than the cache time ago.
Backed(q) ==
  \/ /\ q.cookie # None /\ sessions[q.cookie].revoked = None
     /\ now - sessions[q.cookie].created < SessionTtl
  \/ /\ q.token # None /\ q.token.user \in Registered
     /\ \/ withdrawn[q.token.key] = None
        \/ now - withdrawn[q.token.key] < CacheTime

\* Every action, and every read while one of the two modes is enforced or misspelt, is backed,
\* for each setting of the modes.  (proxy, getConsoleSession, canReadConsoleDuringRollout.)
AccessIsBacked ==
  \A q \in Requests :
    \/ Backed(q)
    \/ \A m \in [discord : Mode, access : Mode] :
         /\ ~MayAct(m, q)
         /\ MayRead(m, q) => {m.discord, m.access} \subseteq {"disabled", "report"}
=============================================================================
