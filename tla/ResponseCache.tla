----------------------------- MODULE ResponseCache -----------------------------
(***************************************************************************)
(* The response cache of middleware/cache.go: a GET is answered from Redis  *)
(* or by its handler, whose response a goroutine stores; a mutation starts  *)
(* a goroutine that scans for the entries of its resource and deletes them, *)
(* while the handler runs.  The goroutines read the request's context after *)
(* it may have been given to the next request (fiber reuses contexts and    *)
(* their buffers), so what they read is then either request's.  A resource  *)
(* is a path prefix; a response is who asked and the version he was shown.  *)
(***************************************************************************)
EXTENDS Integers, FiniteSets

CONSTANTS
    Contexts, Users, Resources,
    TTL,
    MaxRequests, MaxTime, MaxFaults,   \* bounds on requests, the clock and failed Redis calls
    Overlaps,   \* whether goroutines may outlive their request's turn: the answers to try
    None

VARIABLES
    overlap,
    version, changed,   \* per resource, how often it changed, and when last
    redis,              \* per user and resource: None or [body, until]
    ctx,                \* per context: [pc, request, body], request [id, user, res]
    loose,              \* goroutines: [do, id, on, user, res, body, found]
    time, requests, faults,
    late,               \* whether a goroutine has run after its context was reused
    hit                 \* in the step that serves from the cache: [user, res, body]

web == <<overlap, version, changed, redis, ctx, loose, time, requests, faults, late, hit>>

(* What the constants must be. *)
ResponseCacheAssumption == TTL \in Nat /\ MaxFaults \in Nat

NoRequest == [id |-> 0, user |-> None, res |-> None]
Idle == [pc |-> "idle", request |-> NoRequest, body |-> None]

Init ==
    /\ overlap \in Overlaps
    /\ version = [r \in Resources |-> 0] /\ changed = [r \in Resources |-> 0]
    /\ redis = [k \in Users \X Resources |-> None]
    /\ ctx = [c \in Contexts |-> Idle] /\ loose = {}
    /\ time = 0 /\ requests = 0 /\ faults = 0 /\ late = FALSE /\ hit = None

Spawn(do, c, body, found) ==
    [do |-> do, id |-> ctx[c].request.id, on |-> c, user |-> ctx[c].request.user, res |-> ctx[c].request.res,
     body |-> body, found |-> found]

(* A request arrives on a free context. *)
Begin(c, pc, user, res) ==
    /\ ctx[c].pc = "idle" /\ requests < MaxRequests
    /\ overlap \/ (loose = {} /\ \A d \in Contexts : ctx[d].pc = "idle")
    /\ requests' = requests + 1
    /\ ctx' = [ctx EXCEPT ![c] = [pc |-> pc, request |-> [id |-> requests + 1, user |-> user, res |-> res], body |-> None]]
    /\ UNCHANGED <<overlap, version, changed, redis, time, faults, late>>

Get(c, user, res) == Begin(c, "lookup", user, res) /\ hit' = None /\ UNCHANGED loose

(* The invalidation is started before the handler. *)
Mutate(c, user, res) ==
    /\ Begin(c, "write", user, res) /\ hit' = None
    /\ loose' = loose \cup {[do |-> "scan", id |-> requests + 1, on |-> c, user |-> user, res |-> res,
                             body |-> None, found |-> {}]}

(* getCachedResponse: an error is a miss. *)
Lookup(c) ==
    LET q == ctx[c].request
        e == redis[<<q.user, q.res>>]
        live == e # None /\ time < e.until
    IN /\ ctx[c].pc = "lookup"
       /\ \/ /\ live /\ hit' = [user |-> q.user, res |-> q.res, body |-> e.body]
             /\ ctx' = [ctx EXCEPT ![c].pc = "idle", ![c].body = e.body] /\ UNCHANGED faults
          \/ /\ IF live THEN faults < MaxFaults /\ faults' = faults + 1 ELSE UNCHANGED faults
             /\ ctx' = [ctx EXCEPT ![c].pc = "read"] /\ hit' = None
       /\ UNCHANGED <<overlap, version, changed, redis, loose, time, requests, late>>

(* The handler of a GET, and the goroutine that stores what it answered;    *)
(* an answer that is not cacheable (or no-cache) starts none. *)
Read(c) ==
    LET q == ctx[c].request
        body == [user |-> q.user, res |-> q.res, version |-> version[q.res], at |-> time]
    IN /\ ctx[c].pc = "read"
       /\ ctx' = [ctx EXCEPT ![c].pc = "idle", ![c].body = body]
       /\ loose' \in {loose, loose \cup {Spawn("store", c, body, {})}}
       /\ hit' = None
       /\ UNCHANGED <<overlap, version, changed, redis, time, requests, faults, late>>

Write(c) ==
    LET r == ctx[c].request.res
    IN /\ ctx[c].pc = "write"
       /\ version' = [version EXCEPT ![r] = @ + 1] /\ changed' = [changed EXCEPT ![r] = time]
       /\ ctx' = [ctx EXCEPT ![c].pc = "idle"] /\ hit' = None
       /\ UNCHANGED <<overlap, redis, loose, time, requests, faults, late>>

-----------------------------------------------------------------------------
(* The goroutines. *)

Reused(g) == ctx[g.on].request.id # g.id
Ran(g) == late' = (late \/ Reused(g)) /\ hit' = None /\ UNCHANGED <<overlap, version, changed, ctx, time, requests>>

(* setCachedResponse, of the buffer of the context; a failing SET is lost. *)
Store(g) ==
    /\ g \in loose /\ g.do = "store" /\ Ran(g)
    /\ loose' = loose \ {g}
    /\ \/ /\ \E b \in {g.body} \cup (IF Reused(g) THEN {ctx[g.on].body} \ {None} ELSE {}) :
               redis' = [redis EXCEPT ![<<g.user, g.res>>] = [body |-> b, until |-> time + TTL]]
          /\ UNCHANGED faults
       \/ faults < MaxFaults /\ faults' = faults + 1 /\ UNCHANGED redis

(* Mutant: only the entries of the user who changed something. *)
Related_OwnOnly(user, res) == {user} \X {res}

(* The tenant's entries for a resource, whoever's. *)
Related(user, res) == Users \X {res}

(* invalidateRelatedCache: the scan, then one DEL of what it found; a       *)
(* failing scan finds nothing. *)
Scan(g) ==
    /\ g \in loose /\ g.do = "scan" /\ Ran(g)
    /\ \E res \in {g.res} \cup (IF Reused(g) THEN {ctx[g.on].request.res} ELSE {}) :
         LET found == {k \in Related(g.user, res) : redis[k] # None}
         IN \/ /\ loose' = (loose \ {g}) \cup (IF found = {} THEN {} ELSE {[g EXCEPT !.do = "del", !.found = found]})
               /\ UNCHANGED faults
            \/ faults < MaxFaults /\ faults' = faults + 1 /\ loose' = loose \ {g}
    /\ UNCHANGED redis

Del(g) ==
    /\ g \in loose /\ g.do = "del" /\ Ran(g)
    /\ loose' = loose \ {g}
    /\ \/ redis' = [k \in DOMAIN redis |-> IF k \in g.found THEN None ELSE redis[k]] /\ UNCHANGED faults
       \/ faults < MaxFaults /\ faults' = faults + 1 /\ UNCHANGED redis

(* InvalidateCache, called for a resource by whoever wants to; scan and     *)
(* delete in one, as nothing depends on what comes between. *)
InvalidateCache(res) ==
    /\ loose = {} /\ \E k \in Users \X {res} : redis[k] # None
    /\ redis' = [k \in DOMAIN redis |-> IF k[2] = res THEN None ELSE redis[k]]
    /\ hit' = None
    /\ UNCHANGED <<overlap, version, changed, ctx, loose, time, requests, faults, late>>

(* Requests and goroutines are short against a unit of time: it passes when *)
(* all are done. *)
Tick ==
    /\ time < MaxTime /\ loose = {} /\ \A c \in Contexts : ctx[c].pc = "idle"
    /\ time' = time + 1 /\ hit' = None
    /\ UNCHANGED <<overlap, version, changed, redis, ctx, loose, requests, faults, late>>

Next ==
    \/ \E c \in Contexts : \/ \E u \in Users, r \in Resources : Get(c, u, r) \/ Mutate(c, u, r)
                           \/ Lookup(c) \/ Read(c) \/ Write(c)
    \/ \E g \in loose : Store(g) \/ Scan(g) \/ Del(g)
    \/ \E r \in Resources : InvalidateCache(r)
    \/ Tick

Spec == Init /\ [][Next]_web

-----------------------------------------------------------------------------
TypeOK ==
    /\ \A c \in Contexts : ctx[c].pc \in {"idle", "lookup", "read", "write"}
    /\ \A g \in loose : g.do \in {"store", "scan", "del"} /\ g.on \in Contexts
    /\ \A k \in DOMAIN redis : redis[k] # None => redis[k].until <= time + TTL

(* While requests and their goroutines take turns, what the cache serves is *)
(* the resource as it is, whoever changed it; a failed DEL or a late        *)
(* goroutine can leave an old entry behind. *)
SerialHitIsCurrent ==
    ~overlap /\ faults = 0 /\ hit # None => hit.body.version = version[hit.res]

(* However the invalidations go wrong, an outdated answer is served only    *)
(* within its time to live: what is stored was read in the same second.  A  *)
(* goroutine that reads a reused context can find an answer in it that was  *)
(* itself served from the cache, and store it for another time to live. *)
StaleWithinTTL ==
    hit # None /\ ~late => hit.body.version = version[hit.body.res] \/ time < changed[hit.body.res] + TTL

(* Nobody is served another user's answer, or another resource's, unless a  *)
(* goroutine has read a context that was no longer its request's. *)
AnswersArePrivate == hit # None /\ ~late => hit.body.user = hit.user /\ hit.body.res = hit.res

ResponseCacheSound == TypeOK /\ SerialHitIsCurrent /\ StaleWithinTTL /\ AnswersArePrivate
=============================================================================
