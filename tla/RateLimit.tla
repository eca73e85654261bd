-------------------------------- MODULE RateLimit --------------------------------
(***************************************************************************)
(* The two sliding windows over Redis sorted sets: the middleware's         *)
(* (middleware/ratelimit.go), whose commands go in one pipeline that other  *)
(* requests may interleave, and the Lua script of SecurityService           *)
(* (services/core/auth.go), whose members are seconds.  A tick is a second. *)
(* Which limit a route or role has, and the ten minutes after which the     *)
(* counter of rejections is forgotten, are left out.                        *)
(***************************************************************************)
EXTENDS Integers, Sequences, FiniteSets

CONSTANTS
    Handlers,       \* request goroutines
    Limit,          \* per window key, "user" and "tenant": its limit
    LoginLimit,     \* the script's
    Window,         \* seconds, of either
    AbuseThreshold,
    MaxRequests, MaxTime, MaxFaults   \* bounds on arrivals, the clock and Redis errors

VARIABLES
    now,
    zset,     \* per key: [id, at] of the requests in the window
    logins,   \* the script's sorted set: seconds
    abuse,    \* counter of rejections at the user key
    pc, job,  \* job: [id, at, key]
    arrived, faults,
    passed,   \* per key: [id, at] of the requests its check let through
    accepted, \* seconds of the logins the script let through
    rejected, alerts

windows == <<now, zset, logins, abuse, pc, job, arrived, faults, passed, accepted, rejected, alerts>>

Keys == {"user", "tenant"}
NoJob == [id |-> 0, at |-> 0, key |-> "user"]

(* What the constants must be. *)
RateLimitAssumption ==
    /\ IsFiniteSet(Handlers) /\ Handlers # {}
    /\ Limit \in [Keys -> Nat] /\ {LoginLimit, Window, AbuseThreshold, MaxRequests, MaxFaults} \subseteq Nat
    /\ MaxTime \in Nat \ {0}

Init ==
    /\ now = 1
    /\ zset = [k \in Keys |-> {}] /\ passed = [k \in Keys |-> {}]
    /\ logins = {} /\ accepted = {}
    /\ abuse = 0 /\ rejected = 0 /\ alerts = 0
    /\ pc = [h \in Handlers |-> "idle"] /\ job = [h \in Handlers |-> NoJob]
    /\ arrived = 0 /\ faults = 0

Goto(h, step) == pc' = [pc EXCEPT ![h] = step]
Return(h) == Goto(h, "idle") /\ job' = [job EXCEPT ![h] = NoJob]

(* The clock is read once, before the pipeline. *)
Arrive(h) ==
    /\ pc[h] = "idle" /\ arrived < MaxRequests
    /\ arrived' = arrived + 1
    /\ Goto(h, "prune") /\ job' = [job EXCEPT ![h] = [id |-> arrived + 1, at |-> now, key |-> "user"]]
    /\ UNCHANGED <<now, zset, logins, abuse, faults, passed, accepted, rejected, alerts>>

Prune(h) ==
    LET k == job[h].key
    IN /\ pc[h] = "prune"
       /\ zset' = [zset EXCEPT ![k] = {e \in @ : e.at > job[h].at - Window}]
       /\ Goto(h, "add")
       /\ UNCHANGED <<now, logins, abuse, job, arrived, faults, passed, accepted, rejected, alerts>>

(* A request that will be rejected is counted too. *)
Add(h) ==
    /\ pc[h] = "add"
    /\ zset' = [zset EXCEPT ![job[h].key] = @ \cup {[id |-> job[h].id, at |-> job[h].at]}]
    /\ Goto(h, "card")
    /\ UNCHANGED <<now, logins, abuse, job, arrived, faults, passed, accepted, rejected, alerts>>

(* Mutant: the request itself is not counted against the limit. *)
Remaining_OffByOne(k) == Limit[k] - Cardinality(zset[k]) + 1

Remaining(k) == Limit[k] - Cardinality(zset[k])

(* Passing the user's window leads to the tenant's; only a rejection at the *)
(* user's counts as abuse. *)
Enforce(h) ==
    LET k == job[h].key
    IN /\ pc[h] = "card"
       /\ IF Remaining(k) < 0
          THEN /\ rejected' = rejected + (IF k = "user" THEN 1 ELSE 0)
               /\ IF k = "user" THEN Goto(h, "incr") /\ UNCHANGED job ELSE Return(h)
               /\ UNCHANGED passed
          ELSE /\ passed' = [passed EXCEPT ![k] = @ \cup {[id |-> job[h].id, at |-> job[h].at]}]
               /\ IF k = "user" THEN Goto(h, "prune") /\ job' = [job EXCEPT ![h].key = "tenant"] ELSE Return(h)
               /\ UNCHANGED rejected
       /\ UNCHANGED <<now, zset, logins, abuse, arrived, faults, accepted, alerts>>

(* A Redis error fails open: the request goes on uncounted. *)
FailsOpen(h) ==
    /\ pc[h] \in {"prune", "add", "card"} /\ faults < MaxFaults
    /\ faults' = faults + 1
    /\ Return(h)
    /\ UNCHANGED <<now, zset, logins, abuse, arrived, passed, accepted, rejected, alerts>>

(* trackAbuse: INCR, and at the threshold an alert and a DEL.  A request    *)
(* that is let through does not reset the counter. *)
TrackAbuse(h) ==
    /\ pc[h] = "incr"
    /\ abuse' = abuse + 1
    /\ IF abuse + 1 >= AbuseThreshold THEN alerts' = alerts + 1 /\ Goto(h, "del") /\ UNCHANGED job
       ELSE Return(h) /\ UNCHANGED alerts
    /\ UNCHANGED <<now, zset, logins, arrived, faults, passed, accepted, rejected>>

ResetAbuse(h) ==
    /\ pc[h] = "del"
    /\ abuse' = 0
    /\ Return(h)
    /\ UNCHANGED <<now, zset, logins, arrived, faults, passed, accepted, rejected, alerts>>

(* The script is one step: it adds only what it lets through, and one       *)
(* second is one member. *)
Login ==
    LET fresh == {s \in logins : s > now - Window}
    IN /\ logins' = IF Cardinality(fresh) >= LoginLimit THEN fresh ELSE fresh \cup {now}
       /\ accepted' = IF Cardinality(fresh) >= LoginLimit THEN accepted ELSE accepted \cup {now}
       /\ UNCHANGED <<now, zset, abuse, pc, job, arrived, faults, passed, rejected, alerts>>

(* A request lasts into the next second at most. *)
Tick ==
    /\ now < MaxTime
    /\ \A h \in Handlers : pc[h] # "idle" => job[h].at = now
    /\ now' = now + 1
    /\ UNCHANGED <<zset, logins, abuse, pc, job, arrived, faults, passed, accepted, rejected, alerts>>

Next ==
    \/ \E h \in Handlers : \/ Arrive(h) \/ Prune(h) \/ Add(h) \/ Enforce(h) \/ FailsOpen(h)
                           \/ TrackAbuse(h) \/ ResetAbuse(h)
    \/ Login \/ Tick

Spec == Init /\ [][Next]_windows

-----------------------------------------------------------------------------
(* Types. *)
TypeOK ==
    /\ now \in 1..MaxTime
    /\ \A k \in Keys : zset[k] \subseteq [id : 1..MaxRequests, at : 1..now]
    /\ logins \subseteq accepted /\ accepted \subseteq 1..now
    /\ abuse \in 0..rejected /\ arrived \in 0..MaxRequests /\ faults \in 0..MaxFaults

(* The commands of one pipeline interleave with others', but each request   *)
(* adds itself before it counts: of the requests stamped within a window    *)
(* (shorter by the second a request may last) no more pass than the limit,  *)
(* and the script lets at most LoginLimit seconds of a window through,      *)
(* however many requests each of them holds. *)
WindowRespected ==
    \A t \in 1..MaxTime :
        /\ \A k \in Keys : Cardinality({p \in passed[k] : t - (Window - 1) < p.at /\ p.at <= t}) <= Limit[k]
        /\ Cardinality({s \in accepted : t - Window < s /\ s <= t}) <= LoginLimit

(* Every alert is earned: the requests that pass the threshold together,    *)
(* before one of them resets the counter, are no more than the handlers,    *)
(* and behind each such group there is a threshold of rejections of its own.*)
AlertsEarned ==
    rejected >= AbuseThreshold * ((alerts + Cardinality(Handlers) - 1) \div Cardinality(Handlers))

RateLimitSound == TypeOK /\ WindowRespected /\ AlertsEarned
=============================================================================
