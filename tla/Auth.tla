---------------------------------- MODULE Auth ----------------------------------
(***************************************************************************)
(* AuthService and SessionService (services/core/auth.go) with the handlers *)
(* over them (handlers/auth.go) and the Google login (services/core/oauth.go): *)
(* the failed-login counter, sessions and their index in Redis, refresh    *)
(* tokens, pending second factors and reset links of one account.          *)
(*                                                                         *)
(* Every database statement and every Redis call is a step of its own; a   *)
(* request works on the copy of the user or of the token it has loaded.    *)
(* A Redis pipeline is one step: its commands are sent together.           *)
(***************************************************************************)
EXTENDS Integers, Sequences, FiniteSets, FiniteSetsExt

CONSTANTS
    Handlers,        \* request goroutines
    Passwords,       \* passwords the account may have
    Wrong,           \* a password the account never has
    Role,            \* the user's primary_role
    Devices,         \* device types of logins
    ByRole,          \* configured token lifetimes: role -> [access, refresh]
    ByDevice,        \* device type -> [access, refresh]
    DefaultTtl,
    Links,           \* reset links that can be sent
    MaxSessions,     \* configured cap on sessions
    HistoryDepth,    \* configured password history
    StartAttempts,   \* failed_login_attempts at the start
    MaxRequests,     \* bound on requests begun, by whether they overlap
    MaxTime,         \* bound on the clock
    MaxFaults,       \* bound on Redis and database errors and aborted requests
    Overlaps         \* whether requests may overlap: the answers to try

Lifetimes == [access : Nat \ {0}, refresh : Nat \ {0}]

AuthAssumption ==
    /\ Wrong \notin Passwords /\ "web" \in Devices
    /\ DefaultTtl \in Lifetimes
    /\ \A r \in DOMAIN ByRole : ByRole[r] \in Lifetimes
    /\ \A d \in DOMAIN ByDevice : ByDevice[d] \in Lifetimes
    /\ MaxSessions \in Nat \ {0} /\ HistoryDepth \in Nat
    /\ StartAttempts \subseteq Nat
    /\ MaxRequests \in [BOOLEAN -> Nat] /\ MaxTime \in Nat /\ MaxFaults \in Nat
    /\ Overlaps \subseteq BOOLEAN
    /\ IsFiniteSet(Handlers) /\ Handlers # {}

VARIABLES
    overlap,     \* the answer of this behaviour
    now,         \* the clock, in ticks
    attempts,    \* users.failed_login_attempts
    lockedUntil, \* users.locked_until
    history,     \* password_histories, oldest first
    password,    \* users.password_hash
    sessions,    \* session:{user}:{id} by id: [until, ttl, via, of]
    index,       \* user_sessions:{user}, a set of ids
    indexUntil,  \* its expiry
    tokens,      \* refresh_tokens rows: [sid, device, until, revoked]
    pending,     \* pending_2fa:{id} in Redis
    issued,      \* pending second factors issued so far
    links,       \* password_reset:{hash} in Redis
    pc, job,     \* next step and local copies of each handler
    wrong,       \* wrong passwords since the last successful comparison
    lastWrong,   \* when the last one was tried
    barred,      \* what existed when a password changed or a reuse was noticed
    uses,        \* password resets done with each link
    requests, faults

account == <<attempts, lockedUntil>>
secret == <<password, history>>
redisSessions == <<sessions, index, indexUntil>>
redisKeys == <<pending, issued, links>>
ghosts == <<wrong, lastWrong, barred, uses>>
bounds == <<overlap, now, requests, faults>>
auth == <<account, secret, redisSessions, tokens, redisKeys, pc, job, ghosts, bounds>>

NoJob == [kind |-> "none", attempts |-> 0, old |-> Wrong, new |-> Wrong, device |-> "web",
          sid |-> 0, token |-> 0, via |-> "none", of |-> 0, members |-> {}]

-----------------------------------------------------------------------------
(* Helpers. *)

Live(s) == sessions[s].until > now
Index == IF indexUntil > now THEN index ELSE {}
LiveSessions == {s \in 1..Len(sessions) : Live(s)}
ActiveTokens == {t \in 1..Len(tokens) : ~tokens[t].revoked}

DetermineTokenTTL(role, device) ==
    IF role \in DOMAIN ByRole THEN ByRole[role]
    ELSE IF device \in DOMAIN ByDevice THEN ByDevice[device]
    ELSE DefaultTtl

(* An earlier login, with which a behaviour may start. *)
LoggedIn(ttl, device) ==
    /\ sessions = <<[until |-> now + ttl.access, ttl |-> ttl.access, via |-> "password", of |-> 0]>>
    /\ index = {1} /\ indexUntil = now + ttl.access
    /\ tokens = <<[sid |-> 1, device |-> device, until |-> now + ttl.refresh, revoked |-> FALSE]>>

Init ==
    /\ overlap \in Overlaps /\ now = 1
    /\ attempts \in StartAttempts /\ lockedUntil = 0
    /\ password \in Passwords /\ history = <<password>>
    /\ \/ sessions = <<>> /\ index = {} /\ indexUntil = 0 /\ tokens = <<>>
       \/ \E d \in Devices : LoggedIn(DetermineTokenTTL(Role, d), d)
    /\ pending = {} /\ issued = 0 /\ links = {}
    /\ pc = [h \in Handlers |-> "idle"]
    /\ job = [h \in Handlers |-> NoJob]
    /\ wrong = attempts /\ lastWrong = 0 /\ barred = {} /\ uses = [l \in Links |-> 0]
    /\ requests = 0 /\ faults = 0

(* CalculateLockoutDuration: five minutes, half an hour and a day are one,  *)
(* two and three ticks. *)
LockoutDuration(n) == IF n >= 20 THEN 3 ELSE IF n >= 10 THEN 2 ELSE IF n >= 5 THEN 1 ELSE 0

(* CalculateRiskScore.  The caller has just reset the failures of its copy. *)
RiskScore(sig) ==
      (IF sig.ipChanged THEN 20 ELSE 0)
    + (IF sig.ipChanged /\ sig.countryChanged THEN 30 ELSE 0)
    + (IF sig.ipChanged /\ sig.impossibleTravel THEN 50 ELSE 0)
    + (CASE sig.device = "new" -> 25 [] sig.device = "untrusted" -> 15 [] OTHER -> 0)

Signals == [ipChanged : BOOLEAN, countryChanged : BOOLEAN, impossibleTravel : BOOLEAN,
            device : {"new", "untrusted", "trusted"}, twoFactorEnabled : BOOLEAN]

RequiresMFA(sig) == RiskScore(sig) >= 50 \/ sig.twoFactorEnabled

(* ValidatePasswordStrength and CheckPasswordBreach, whose lookup fails open. *)
PasswordAllowed(strong, lookup) == strong /\ lookup # "listed"

(* CheckPasswordHistory: the last HistoryDepth passwords. *)
Recent(hist) == {hist[i] : i \in {j \in 1..Len(hist) : j > Len(hist) - HistoryDepth}}

MayBegin(h) ==
    /\ pc[h] = "idle" /\ requests < MaxRequests[overlap]
    /\ overlap \/ \A g \in Handlers : pc[g] = "idle"
    /\ requests' = requests + 1

Goto(h, step) == pc' = [pc EXCEPT ![h] = step]
Begin(h, step, j) == MayBegin(h) /\ Goto(h, step) /\ job' = [job EXCEPT ![h] = j]
Return(h) == Goto(h, "idle") /\ job' = [job EXCEPT ![h] = NoJob]
Fault == faults < MaxFaults /\ faults' = faults + 1

(* What a change of password or a detected reuse is to put out of use. *)
Existing == {<<"session", s>> : s \in LiveSessions} \cup {<<"token", t>> : t \in ActiveTokens}

-----------------------------------------------------------------------------
(* Login. *)

(* The user is loaded; a locked account is refused. *)
LoginLoad(h, pw, device) ==
    /\ lockedUntil <= now
    /\ Begin(h, "compare", [NoJob EXCEPT !.kind = "login", !.attempts = attempts,
                                         !.old = password, !.new = pw, !.device = device])
    /\ UNCHANGED <<account, secret, redisSessions, tokens, redisKeys, ghosts, overlap, now, faults>>

(* handleFailedLogin: the copy's count plus one is written.  An error of    *)
(* the UPDATE is ignored: the answer is the same and nothing was counted. *)
LoginFail(h) ==
    LET n == job[h].attempts + 1 IN
    /\ pc[h] = "compare" /\ job[h].new # job[h].old
    /\ \/ /\ attempts' = n
          /\ lockedUntil' = IF LockoutDuration(n) > 0 THEN now + LockoutDuration(n) ELSE lockedUntil
          /\ UNCHANGED faults
       \/ Fault /\ UNCHANGED account
    /\ wrong' = wrong + 1 /\ lastWrong' = now
    /\ Return(h)
    /\ UNCHANGED <<secret, redisSessions, tokens, redisKeys, barred, uses, overlap, now, requests>>

(* The password matches the copy's: failures are reset, in an UPDATE whose  *)
(* error is ignored, and the risk decides whether a second factor is asked for. *)
LoginMatch(h) ==
    /\ pc[h] = "compare" /\ job[h].new = job[h].old
    /\ \/ /\ IF job[h].attempts > 0 THEN attempts' = 0 /\ lockedUntil' = 0 ELSE UNCHANGED account
          /\ UNCHANGED faults
       \/ job[h].attempts > 0 /\ Fault /\ UNCHANGED account
    /\ wrong' = 0
    /\ \E sig \in Signals : Goto(h, IF RequiresMFA(sig) THEN "pend" ELSE "count")
    /\ job' = [job EXCEPT ![h].via = "password"]
    /\ UNCHANGED <<secret, redisSessions, tokens, redisKeys, lastWrong, barred, uses, overlap, now, requests>>

(* createPending2FASession: an id of its own for every login. *)
CreatePending2FASession(h) ==
    /\ pc[h] = "pend"
    /\ issued' = issued + 1
    /\ pending' = pending \cup {issued'}
    /\ Return(h)
    /\ UNCHANGED <<account, secret, redisSessions, tokens, links, ghosts, bounds>>

(* Mutant: the pending session is read and left to its expiry. *)
Verify2FA_GetOnly(h, p, ok) ==
    /\ p \in pending
    /\ pending' = pending
    /\ Begin(h, IF ok THEN "count" ELSE "idle",
             IF ok THEN [NoJob EXCEPT !.kind = "login", !.via = "pending", !.of = p] ELSE NoJob)
    /\ UNCHANGED <<account, secret, redisSessions, tokens, issued, links, ghosts, overlap, now, faults>>

(* Verify2FA: GETDEL of the pending session, then the code is checked.  The *)
(* session does not hold the device type, which is "web" again. *)
Verify2FA(h, p, ok) ==
    /\ p \in pending
    /\ pending' = pending \ {p}
    /\ Begin(h, IF ok THEN "count" ELSE "idle",
             IF ok THEN [NoJob EXCEPT !.kind = "login", !.via = "pending", !.of = p] ELSE NoJob)
    /\ UNCHANGED <<account, secret, redisSessions, tokens, issued, links, ghosts, overlap, now, faults>>

Pending2FAExpires(p) ==
    /\ p \in pending
    /\ pending' = pending \ {p}
    /\ UNCHANGED <<account, secret, redisSessions, tokens, issued, links, pc, job, ghosts, bounds>>

(* The cap: SCARD of the index. *)
CountUserSessions(h) ==
    /\ pc[h] = "count"
    /\ IF Cardinality(Index) >= MaxSessions THEN Return(h) ELSE Goto(h, "insert") /\ UNCHANGED job
    /\ UNCHANGED <<account, secret, redisSessions, tokens, redisKeys, ghosts, bounds>>

Ttl(h) == IF job[h].via = "google"
          THEN IF Role \in DOMAIN ByRole THEN ByRole[Role] ELSE DefaultTtl
          ELSE DetermineTokenTTL(Role, job[h].device)

(* createAuthTokensWithTTL, issueTokens: the refresh token's row first ... *)
InsertRefreshToken(h) ==
    /\ pc[h] = "insert"
    /\ sessions' = Append(sessions, [until |-> 0, ttl |-> 0, via |-> job[h].via, of |-> job[h].of])
    /\ tokens' = Append(tokens, [sid |-> Len(sessions'), device |-> job[h].device,
                                 until |-> now + Ttl(h).refresh, revoked |-> FALSE])
    /\ job' = [job EXCEPT ![h].sid = Len(sessions')]
    /\ Goto(h, "session")
    /\ UNCHANGED <<account, secret, index, indexUntil, redisKeys, ghosts, bounds>>

(* ... then CreateSession: the key, the index and the index's expiry. *)
CreateSession(h) ==
    LET s == job[h].sid  ttl == Ttl(h).access IN
    /\ pc[h] = "session"
    /\ sessions' = [sessions EXCEPT ![s] = [@ EXCEPT !.until = now + ttl, !.ttl = ttl]]
    /\ index' = Index \cup {s}
    /\ indexUntil' = now + ttl
    /\ Return(h)
    /\ UNCHANGED <<account, secret, tokens, redisKeys, ghosts, bounds>>

(* HandleGoogleCallback for an account that exists: no cap, no second factor. *)
GoogleLogin(h) ==
    /\ Begin(h, "insert", [NoJob EXCEPT !.kind = "login", !.via = "google"])
    /\ UNCHANGED <<account, secret, redisSessions, tokens, redisKeys, ghosts, overlap, now, faults>>

-----------------------------------------------------------------------------
(* Passwords. *)

(* ChangePassword: the user is loaded, the old password compared with the copy. *)
ChangeLoad(h, old, new) ==
    /\ old = password
    /\ \E strong \in BOOLEAN, lookup \in {"clean", "listed", "unreachable"} : PasswordAllowed(strong, lookup)
    /\ Begin(h, "history", [NoJob EXCEPT !.kind = "change", !.old = old, !.new = new])
    /\ UNCHANGED <<account, secret, redisSessions, tokens, redisKeys, ghosts, overlap, now, faults>>

(* ForgotPassword stores a link's key, which expires some time. *)
ForgotPassword(l) ==
    /\ l \notin links /\ uses[l] = 0 /\ \A h \in Handlers : job[h].kind = "reset" => job[h].of # l
    /\ links' = links \cup {l}
    /\ UNCHANGED <<account, secret, redisSessions, tokens, pending, issued, pc, job, ghosts, bounds>>

LinkExpires(l) ==
    /\ l \in links
    /\ links' = links \ {l}
    /\ UNCHANGED <<account, secret, redisSessions, tokens, pending, issued, pc, job, ghosts, bounds>>

(* The ResetPassword handler: GET of the link's key, then the service. *)
ResetGet(h, l, new) ==
    /\ l \in links
    /\ \E strong \in BOOLEAN, lookup \in {"clean", "listed", "unreachable"} : PasswordAllowed(strong, lookup)
    /\ Begin(h, "history", [NoJob EXCEPT !.kind = "reset", !.new = new, !.of = l])
    /\ UNCHANGED <<account, secret, redisSessions, tokens, redisKeys, ghosts, overlap, now, faults>>

CheckPasswordHistory(h) ==
    /\ pc[h] = "history"
    /\ IF job[h].new \in Recent(history) THEN Return(h) ELSE Goto(h, "save") /\ UNCHANGED job
    /\ UNCHANGED <<account, secret, redisSessions, tokens, redisKeys, ghosts, bounds>>

(* The transaction: the hash and its history row. *)
SavePassword(h) ==
    LET j == job[h] IN
    /\ pc[h] = "save"
    /\ password' = j.new /\ history' = Append(history, j.new)
    /\ barred' = barred \cup Existing
    /\ uses' = IF j.kind = "reset" THEN [uses EXCEPT ![j.of] = @ + 1] ELSE uses
    /\ Goto(h, "members")
    /\ UNCHANGED <<account, redisSessions, tokens, redisKeys, job, wrong, lastWrong, bounds>>

(* What follows the revocation of sessions and of tokens: errors of either  *)
(* are ignored. *)
After == [purge |-> [change |-> "tokens", reset |-> "tokens", reuse |-> "done"],
          tokens |-> [change |-> "done", reset |-> "unlink", reuse |-> "members"]]
Proceed(h, done) == Goto(h, After[done][job[h].kind])

(* RevokeAllUserSessions: SMEMBERS, then a pipeline that deletes the keys of *)
(* those ids and the whole index. *)
RevokeAllMembers(h) ==
    /\ pc[h] = "members"
    /\ IF Index = {} THEN Proceed(h, "purge") /\ UNCHANGED job
       ELSE Goto(h, "purge") /\ job' = [job EXCEPT ![h].members = Index]
    /\ UNCHANGED <<account, secret, redisSessions, tokens, redisKeys, ghosts, bounds>>

RevokeAllPurge(h) ==
    /\ pc[h] = "purge"
    /\ sessions' = [s \in DOMAIN sessions |->
                      IF s \in job[h].members THEN [sessions[s] EXCEPT !.until = 0] ELSE sessions[s]]
    /\ index' = {} /\ indexUntil' = 0
    /\ Proceed(h, "purge")
    /\ UNCHANGED <<account, secret, tokens, redisKeys, job, ghosts, bounds>>

(* revokeAllRefreshTokens: one UPDATE over the user's rows. *)
RevokeAllTokens(h) ==
    /\ pc[h] = "tokens"
    /\ tokens' = [t \in DOMAIN tokens |-> [tokens[t] EXCEPT !.revoked = TRUE]]
    /\ Proceed(h, "tokens")
    /\ UNCHANGED <<account, secret, redisSessions, redisKeys, job, ghosts, bounds>>

DeleteLink(h) ==
    /\ pc[h] = "unlink"
    /\ Goto(h, "done") /\ links' = links \ {job[h].of}
    /\ UNCHANGED <<account, secret, redisSessions, tokens, pending, issued, job, ghosts, bounds>>

Answer(h) ==
    /\ pc[h] = "done"
    /\ Return(h)
    /\ UNCHANGED <<account, secret, redisSessions, tokens, redisKeys, ghosts, bounds>>

-----------------------------------------------------------------------------
(* Refresh tokens. *)

(* RefreshAccessToken loads the unexpired row; one that is revoked already  *)
(* ends everything the user has. *)
RefreshLoad(h, t) ==
    LET j == [NoJob EXCEPT !.token = t] IN
    /\ tokens[t].until > now
    /\ IF tokens[t].revoked
       THEN Begin(h, "tokens", [j EXCEPT !.kind = "reuse"]) /\ barred' = barred \cup Existing
       ELSE Begin(h, "rotate", [j EXCEPT !.kind = "refresh"]) /\ UNCHANGED barred
    /\ UNCHANGED <<account, secret, redisSessions, tokens, redisKeys, wrong, lastWrong, uses, overlap, now, faults>>

Successor(t) ==
    [tokens[t] EXCEPT !.revoked = FALSE, !.until = now + DetermineTokenTTL(Role, tokens[t].device).refresh]

(* Mutant: the row is renewed in place. *)
RotateToken_InPlace(h) ==
    /\ pc[h] = "rotate"
    /\ tokens' = [tokens EXCEPT ![job[h].token] = Successor(job[h].token)]
    /\ Goto(h, "done")
    /\ UNCHANGED <<account, secret, redisSessions, redisKeys, job, ghosts, bounds>>

(* The transaction: the row that was loaded is revoked, whatever it has     *)
(* become, and its successor inserted for the same session id. *)
RotateToken(h) ==
    LET t == job[h].token IN
    /\ pc[h] = "rotate"
    /\ tokens' = Append([tokens EXCEPT ![t].revoked = TRUE], Successor(t))
    /\ Goto(h, "done")
    /\ UNCHANGED <<account, secret, redisSessions, redisKeys, job, ghosts, bounds>>

-----------------------------------------------------------------------------
(* Logout and the revocation of one session: one pipeline.  The refresh     *)
(* token of the session stays as it is. *)
RevokeSession(s) ==
    /\ Live(s)
    /\ sessions' = [sessions EXCEPT ![s].until = 0]
    /\ index' = Index \ {s}
    /\ UNCHANGED <<account, secret, indexUntil, tokens, redisKeys, pc, job, ghosts, bounds>>

(* The key a session is stored under, and the one the middleware of every   *)
(* protected route looks for (middleware/auth.go, DTO/RedisCache.go). *)
SessionKey(s) == <<"session", "user", s>>
MiddlewareKey(s) == <<"session", s>>

(* resolveSession: whether the middleware lets a request of session s in. *)
ResolveSession(s) == MiddlewareKey(s) \in {SessionKey(t) : t \in LiveSessions}

(* A Redis or database call fails where the error is ignored ... *)
IgnoredError(h) ==
    /\ pc[h] \in {"members", "purge", "tokens", "unlink"} /\ Fault
    /\ IF pc[h] = "unlink" THEN Goto(h, "done")
       ELSE Proceed(h, IF pc[h] = "tokens" THEN "tokens" ELSE "purge")
    /\ UNCHANGED <<account, secret, redisSessions, tokens, redisKeys, job, ghosts, overlap, now, requests>>

(* ... or ends the request, as its ten-second timeout and a crash do. *)
Abort(h) ==
    /\ pc[h] # "idle" /\ Fault
    /\ Return(h)
    /\ UNCHANGED <<account, secret, redisSessions, tokens, redisKeys, ghosts, overlap, now, requests>>

Tick ==
    /\ now < MaxTime
    /\ now' = now + 1
    /\ UNCHANGED <<account, secret, redisSessions, tokens, redisKeys, pc, job, ghosts, overlap, requests, faults>>

(* A request that is refused before it writes: rate limit, unknown or locked *)
(* account, weak password, unknown token. *)
Refused(h) == pc[h] = "idle" /\ UNCHANGED auth

LoginStep(h) ==
    \/ \E pw \in Passwords \cup {Wrong}, d \in Devices : LoginLoad(h, pw, d)
    \/ LoginFail(h) \/ LoginMatch(h) \/ CreatePending2FASession(h)
    \/ \E p \in pending, ok \in BOOLEAN : Verify2FA(h, p, ok)
    \/ CountUserSessions(h) \/ InsertRefreshToken(h) \/ CreateSession(h) \/ GoogleLogin(h)

PasswordStep(h) ==
    \/ \E old, new \in Passwords : ChangeLoad(h, old, new)
    \/ \E l \in links, new \in Passwords : ResetGet(h, l, new)
    \/ CheckPasswordHistory(h) \/ SavePassword(h)
    \/ RevokeAllMembers(h) \/ RevokeAllPurge(h) \/ RevokeAllTokens(h) \/ DeleteLink(h)

RefreshStep(h) == (\E t \in 1..Len(tokens) : RefreshLoad(h, t)) \/ RotateToken(h)

Next ==
    \/ \E h \in Handlers :
         \/ LoginStep(h) \/ PasswordStep(h) \/ RefreshStep(h)
         \/ Answer(h) \/ IgnoredError(h) \/ Abort(h) \/ Refused(h)
    \/ \E s \in 1..Len(sessions) : RevokeSession(s)
    \/ \E p \in pending : Pending2FAExpires(p)
    \/ \E l \in Links : ForgotPassword(l) \/ LinkExpires(l)
    \/ Tick

Spec == Init /\ [][Next]_auth

-----------------------------------------------------------------------------
(* Properties. *)

Serial == ~overlap

(* Type invariant of rows, keys, handlers and counters. *)
TypeOK ==
    /\ overlap \in BOOLEAN /\ now \in Nat \ {0} /\ requests \in Nat /\ faults \in Nat
    /\ attempts \in Nat /\ lockedUntil \in Nat
    /\ password \in Passwords /\ history \in Seq(Passwords)
    /\ sessions \in Seq([until : Nat, ttl : Nat, via : {"password", "pending", "google"}, of : Nat])
    /\ index \subseteq DOMAIN sessions /\ indexUntil \in Nat
    /\ tokens \in Seq([sid : DOMAIN sessions, device : Devices, until : Nat, revoked : BOOLEAN])
    /\ issued \in Nat /\ pending \subseteq 1..issued /\ links \subseteq Links
    /\ DOMAIN pc = Handlers /\ DOMAIN job = Handlers
    /\ \A h \in Handlers :
         /\ pc[h] = "session" => job[h].sid \in DOMAIN sessions
         /\ pc[h] = "rotate" => job[h].token \in DOMAIN tokens
         /\ pc[h] = "save" => job[h].new \in Passwords
         /\ job[h].members \subseteq DOMAIN sessions
    /\ wrong \in Nat /\ lastWrong \in Nat /\ uses \in [Links -> Nat]

(* The cap is checked before the session is created (auth.go:1076, 1442), so *)
(* logins that overlap exceed it; but each of them by one at most, however  *)
(* sessions expire and are revoked meanwhile.  Google logins are not capped. *)
CapOvershoot ==
    Cardinality({s \in Index : sessions[s].via # "google"}) <= MaxSessions - 1 + Cardinality(Handlers)

(* One pending second factor is promoted to one session (auth.go:1401:      *)
(* "Using GetDel to prevent TOCTOU race"), also when it is submitted twice. *)
OneSessionPerPending ==
    \A s, t \in 1..Len(sessions) :
        sessions[s].via = "pending" /\ sessions[t].via = "pending" /\ sessions[s].of = sessions[t].of => s = t

(* No write of a copy brings a revoked refresh token back (auth.go:1319,    *)
(* 1656): a rotation and the revocation of all tokens may interleave. *)
RevokedStaysRevoked ==
    [][\A t \in 1..Len(tokens) : tokens[t].revoked => tokens'[t].revoked]_auth

(* As long as requests do not overlap, and without faults, what existed when *)
(* the password changed or a rotated token was presented is out of use when *)
(* the request ends (auth.go:1184, 1310); provided all sessions have had one *)
(* lifetime, for the index expires with the latest.                         *)
SerialRevocationComplete ==
    Serial /\ faults = 0 /\ (\A h \in Handlers : pc[h] \in {"idle", "done"})
    /\ (\A s, t \in 1..Len(sessions) : 0 \in {sessions[s].ttl, sessions[t].ttl} \/ sessions[s].ttl = sessions[t].ttl) =>
        \A x \in barred : IF x[1] = "session" THEN ~Live(x[2]) ELSE tokens[x[2]].revoked

(* As long as requests do not overlap, and without faults, five wrong       *)
(* passwords in a row lock the account for a tick from the last one, ten    *)
(* for two (auth.go:682).  A lost UPDATE loses a count and its lock         *)
(* (auth.go:1517). *)
SerialFailuresLock ==
    Serial /\ faults = 0 /\ lastWrong > 0 /\ wrong >= 5 =>
        lockedUntil >= lastWrong + IF wrong >= 10 THEN 2 ELSE 1

(* "Delete the Redis key (one-time use)" (handlers/auth.go:287): without    *)
(* overlap and faults a reset link changes the password once. *)
SerialLinkOnce == Serial /\ faults = 0 => \A l \in Links : uses[l] <= 1

(* "Rotation: revoke old token and issue new one atomically" (auth.go:1315): *)
(* without overlap a session id never has two refresh tokens in use. *)
SerialOneTokenPerSession ==
    Serial => \A t, u \in ActiveTokens : tokens[t].sid = tokens[u].sid => t = u

(* "cannot reuse any of your last %d passwords" (auth.go:511): without       *)
(* overlap a password differs from the HistoryDepth passwords before it. *)
SerialNoReuse ==
    Serial => \A i, j \in 1..Len(history) : i < j /\ j - i <= HistoryDepth => history[i] # history[j]

(* "Session not in Redis - could be expired, evicted, or revoked"           *)
(* (middleware/auth.go:216): a session that a login has just created is     *)
(* found by the middleware of the next request. *)
NewSessionsResolve == [][\A s \in LiveSessions' \ LiveSessions : ResolveSession(s)']_auth

(* What the account of one user promises: the types and what of the above   *)
(* is an invariant of single states. *)
AuthSound ==
    /\ TypeOK /\ CapOvershoot /\ OneSessionPerPending /\ SerialRevocationComplete /\ SerialFailuresLock
    /\ SerialLinkOnce /\ SerialOneTokenPerSession /\ SerialNoReuse
=============================================================================
