-------------------------------- MODULE Access --------------------------------
(***************************************************************************)
(* Who may enter and what he may do: PermissionCache and Auth.  The two     *)
(* share no state; a behaviour is one of either, chosen in the initial      *)
(* state, and leaves the variables of the other alone.                      *)
(***************************************************************************)
EXTENDS PermissionCache

CONSTANTS
    Requests, Passwords, Wrong, Role, Devices, ByRole, ByDevice, DefaultTtl, Links, MaxSessions,
    HistoryDepth, StartAttempts, MaxRequests, AuthTime, AuthFaults   \* Auth

VARIABLES
    part,   \* "auth" or "roles"
    attempts, lockedUntil, history, password, sessions, index, indexUntil, tokens, pending, issued,
    links, wrong, lastWrong, barred, uses, requests

authOnly == <<attempts, lockedUntil, history, password, sessions, index, indexUntil, tokens,
              pending, issued, links, wrong, lastWrong, barred, uses, requests>>
cacheOnly == <<exists, assigned, l1, l2, answer, past, dirty, writes, clean>>
all == <<part, cache, authOnly>>

Au == INSTANCE Auth WITH Handlers <- Requests, MaxTime <- AuthTime, MaxFaults <- AuthFaults

(* What the constants must be. *)
ASSUME AccessAssumption == Au!AuthAssumption

-----------------------------------------------------------------------------
NoRoles ==
    /\ exists = {} /\ assigned = {} /\ past = <<{{}}>> /\ answer = None
    /\ l1 = None /\ l2 = None /\ dirty = {} /\ writes = 0 /\ clean = TRUE

NoAccount ==
    /\ tokens = <<>>
    /\ attempts = None /\ lockedUntil = None /\ history = None /\ password = None /\ sessions = None
    /\ index = None /\ indexUntil = None /\ pending = None /\ issued = None /\ links = None /\ wrong = None
    /\ lastWrong = None /\ barred = None /\ uses = None /\ requests = None

AccessInit ==
    \/ part = "auth" /\ Au!Init /\ NoRoles
    \/ part = "roles" /\ Init /\ NoAccount

AccessNext ==
    \/ part = "auth" /\ Au!Next /\ UNCHANGED <<part, cacheOnly>>
    \/ part = "roles" /\ Next /\ UNCHANGED <<part, authOnly>>

AccessSpec == AccessInit /\ [][AccessNext]_all

-----------------------------------------------------------------------------
(* auth.go: no interleaving brings a revoked refresh token back. *)
RevokedStaysRevoked == Au!RevokedStaysRevoked

(* auth.go: the session cap, second factors, revocation, lockout, reset     *)
(* links, rotation and the password history. *)
AccountSound == part = "auth" => Au!AuthSound

(* rbac.go and handlers/role.go: the cap on roles, the freshness of the     *)
(* layers, and roles that are gone. *)
RolesSound == part = "roles" => CacheSound
=============================================================================
