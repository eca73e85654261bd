------------------------------ MODULE Notifications ------------------------------
(***************************************************************************)
(* NotificationService (services/support/Notification.go): notifications to *)
(* one user or to the whole tenant, the cached badge of unread ones, and    *)
(* webhook subscriptions, by requests of one tenant that may overlap.  A    *)
(* database or Redis call is a step.  Texts and types are left out.         *)
(***************************************************************************)
EXTENDS Integers, Sequences, FiniteSets, Functions

CONSTANTS
    Handlers,    \* request goroutines
    Users,
    Everybody,   \* user_id IS NULL
    Hooks,       \* pairs of event and URL
    Ttl,         \* life of a badge, in ticks
    MaxRequests, \* bound on requests begun
    MaxTime,     \* bound on the clock
    MaxFaults,   \* bound on failed calls
    Overlaps,    \* whether requests may overlap: the answers to try
    None

VARIABLES
    overlap, now,
    notes,     \* notifications in order of creation: [to, read, at], None if deleted
    badge,     \* Redis, per user: None or [total, types, until]
    hooks,     \* webhooks, per event and URL: [on, off], how many are active or not
    pc, job,
    requests, faults, clean

(* What the constants must be. *)
NotificationsAssumption ==
    /\ IsFiniteSet(Handlers) /\ IsFiniteSet(Users) /\ Everybody \notin Users
    /\ Overlaps \subseteq BOOLEAN /\ Ttl \in Nat /\ MaxTime \in Nat \ {0}
    /\ MaxRequests \in Nat /\ MaxFaults \in Nat

notifications == <<overlap, now, notes, badge, hooks, pc, job, requests, faults, clean>>

Rows == {n \in DOMAIN notes : notes[n] # None}
Unread(u) == {n \in Rows : notes[n].to \in {u, Everybody} /\ ~notes[n].read}

Fresh(u) == badge[u] # None /\ now < badge[u].until

NoJob == [for |-> <<>>, seen |-> {}, types |-> {}, hook |-> None]

Init ==
    /\ overlap \in Overlaps /\ now = 1
    /\ notes = <<>> /\ hooks = [k \in Hooks |-> [on |-> 0, off |-> 0]]
    /\ badge = [u \in Users |-> None]
    /\ pc = [h \in Handlers |-> "idle"] /\ job = [h \in Handlers |-> NoJob]
    /\ requests = 0 /\ faults = 0 /\ clean = TRUE

Start(h) ==
    /\ pc[h] = "idle" /\ (overlap \/ \A g \in Handlers : pc[g] = "idle")
    /\ requests < MaxRequests /\ requests' = requests + 1
Goto(h, step) == pc' = [pc EXCEPT ![h] = step]
Return(h) == Goto(h, "idle") /\ job' = [job EXCEPT ![h] = NoJob]

(* The badges to invalidate next, if any. *)
ForgetBadges(h, us) ==
    IF us = <<>> THEN UNCHANGED <<pc, job>>
    ELSE Goto(h, "forget") /\ job' = [job EXCEPT ![h].for = us]

NewNote(u) == [to |-> u, read |-> FALSE, at |-> now]

(* The recipients of a bulk, each once, in any order. *)
AllUsers == Bijection(1..Cardinality(Users), Users)

-----------------------------------------------------------------------------
(* Send and SendToAll (which NotifyLowStock, NotifyOrderReady and           *)
(* NotifySecurityAlert call): only a personal one invalidates a badge. *)
Send(h, to) ==
    /\ Start(h)
    /\ notes' = Append(notes, NewNote(to))
    /\ ForgetBadges(h, IF to = Everybody THEN <<>> ELSE <<to>>)
    /\ UNCHANGED <<overlap, now, badge, hooks, faults, clean>>

(* Mutant: the last user of a bulk keeps the old badge. *)
SendBulk_AllButLast(h) ==
    \E us \in AllUsers :
        /\ Start(h)
        /\ notes' = notes \o [i \in DOMAIN us |-> NewNote(us[i])]
        /\ ForgetBadges(h, SubSeq(us, 1, Len(us) - 1))
        /\ UNCHANGED <<overlap, now, badge, hooks, faults, clean>>

SendBulk(h) ==
    \E us \in AllUsers :
        /\ Start(h)
        /\ notes' = notes \o [i \in DOMAIN us |-> NewNote(us[i])]
        /\ ForgetBadges(h, us)
        /\ UNCHANGED <<overlap, now, badge, hooks, faults, clean>>

(* MarkAsRead, for anybody's notification, and DeleteNotification leave the *)
(* badges alone. *)
MarkAsRead(h, n) ==
    /\ Start(h) /\ n \in Rows
    /\ notes' = [notes EXCEPT ![n].read = TRUE]
    /\ UNCHANGED <<overlap, now, badge, hooks, pc, job, faults, clean>>

DeleteNotification(h, n) ==
    /\ Start(h) /\ n \in Rows
    /\ notes' = [notes EXCEPT ![n] = None]
    /\ UNCHANGED <<overlap, now, badge, hooks, pc, job, faults, clean>>

DeleteOlderThan(h, cutoff) ==
    /\ Start(h)
    /\ notes' = [n \in DOMAIN notes |-> IF n \in Rows /\ notes[n].at < cutoff THEN None ELSE notes[n]]
    /\ UNCHANGED <<overlap, now, badge, hooks, pc, job, faults, clean>>

(* A tenant-wide notification that one user has read is read for all. *)
MarkAllAsRead(h, u) ==
    /\ Start(h)
    /\ notes' = [n \in DOMAIN notes |-> IF n \in Unread(u) THEN [notes[n] EXCEPT !.read = TRUE] ELSE notes[n]]
    /\ ForgetBadges(h, <<u>>)
    /\ UNCHANGED <<overlap, now, badge, hooks, faults, clean>>

(* invalidateBadgeCache, whose error is ignored. *)
Forget(h) ==
    LET us == job[h].for
    IN /\ pc[h] = "forget"
       /\ \/ badge' = [badge EXCEPT ![Head(us)] = None] /\ UNCHANGED <<faults, clean>>
          \/ faults < MaxFaults /\ faults' = faults + 1 /\ clean' = FALSE /\ UNCHANGED badge
       /\ IF Tail(us) = <<>> THEN Return(h) ELSE job' = [job EXCEPT ![h].for = Tail(us)] /\ UNCHANGED pc
       /\ UNCHANGED <<overlap, now, notes, hooks, requests>>

-----------------------------------------------------------------------------
(* GetBadge: a cached badge answers; otherwise the unread rows are counted, *)
(* counted again by type, and stored; a query that fails counts nothing. *)
GetBadge(h, u) ==
    /\ Start(h)
    /\ ~Fresh(u)
    /\ Goto(h, "types")
    /\ \/ job' = [job EXCEPT ![h].for = <<u>>, ![h].seen = Unread(u)] /\ UNCHANGED <<faults, clean>>
       \/ faults < MaxFaults /\ faults' = faults + 1 /\ clean' = FALSE /\ job' = [job EXCEPT ![h].for = <<u>>]
    /\ UNCHANGED <<overlap, now, notes, badge, hooks>>

CountTypes(h) ==
    /\ pc[h] = "types"
    /\ Goto(h, "set")
    /\ \/ job' = [job EXCEPT ![h].types = Unread(Head(job[h].for))] /\ UNCHANGED <<faults, clean>>
       \/ faults < MaxFaults /\ faults' = faults + 1 /\ clean' = FALSE /\ UNCHANGED job
    /\ UNCHANGED <<overlap, now, notes, badge, hooks, requests>>

SetBadge(h) ==
    /\ pc[h] = "set"
    /\ badge' = [badge EXCEPT ![Head(job[h].for)] =
                   [total |-> job[h].seen, types |-> job[h].types, until |-> now + Ttl]]
    /\ Return(h)
    /\ UNCHANGED <<overlap, now, notes, hooks, requests, faults, clean>>

-----------------------------------------------------------------------------
(* RegisterWebhook: a count, which is zero if it fails, and an insert. *)
CountHooks(h, k) ==
    /\ Start(h)
    /\ \/ hooks[k].on = 0 /\ UNCHANGED <<faults, clean>>
       \/ faults < MaxFaults /\ faults' = faults + 1 /\ clean' = FALSE
    /\ Goto(h, "insert") /\ job' = [job EXCEPT ![h].hook = k]
    /\ UNCHANGED <<overlap, now, notes, badge, hooks>>

InsertHook(h) ==
    /\ pc[h] = "insert"
    /\ hooks' = [hooks EXCEPT ![job[h].hook].on = @ + 1]
    /\ Return(h)
    /\ UNCHANGED <<overlap, now, notes, badge, requests, faults, clean>>

DeactivateWebhook(h, k) ==
    /\ Start(h) /\ hooks[k].on > 0
    /\ hooks' = [hooks EXCEPT ![k] = [on |-> @.on - 1, off |-> @.off + 1]]
    /\ UNCHANGED <<overlap, now, notes, badge, pc, job, faults, clean>>

DeleteWebhook(h, k) ==
    /\ Start(h)
    /\ \/ hooks[k].on > 0 /\ hooks' = [hooks EXCEPT ![k].on = @ - 1]
       \/ hooks[k].off > 0 /\ hooks' = [hooks EXCEPT ![k].off = @ - 1]
    /\ UNCHANGED <<overlap, now, notes, badge, pc, job, faults, clean>>

Tick ==
    /\ now < MaxTime /\ now' = now + 1
    /\ UNCHANGED <<overlap, notes, badge, hooks, pc, job, requests, faults, clean>>

Next ==
    \/ \E h \in Handlers :
         \/ \E to \in Users \cup {Everybody} : Send(h, to)
         \/ SendBulk(h)
         \/ \E n \in DOMAIN notes : MarkAsRead(h, n) \/ DeleteNotification(h, n)
         \/ \E cutoff \in 2..MaxTime : DeleteOlderThan(h, cutoff)
         \/ \E u \in Users : MarkAllAsRead(h, u) \/ GetBadge(h, u)
         \/ Forget(h) \/ CountTypes(h) \/ SetBadge(h) \/ InsertHook(h)
         \/ \E k \in Hooks : CountHooks(h, k) \/ DeactivateWebhook(h, k) \/ DeleteWebhook(h, k)
    \/ Tick

Spec == Init /\ [][Next]_notifications

-----------------------------------------------------------------------------
(* Types. *)
TypeOK ==
    /\ overlap \in BOOLEAN /\ clean \in BOOLEAN /\ now \in 1..MaxTime
    /\ \A n \in DOMAIN notes : notes[n] # None => notes[n].to \in Users \cup {Everybody} /\ notes[n].at \in 1..now
    /\ \A u \in Users : badge[u] # None =>
         badge[u].total \cup badge[u].types \subseteq DOMAIN notes /\ badge[u].until \in 1..now + Ttl
    /\ \A k \in Hooks : hooks[k].on \in 0..requests
    /\ faults \in 0..MaxFaults /\ requests \in 0..MaxRequests

(* Without overlap or error a badge never hides a notification sent to its  *)
(* user alone (it can miss tenant-wide ones and show what has been read or  *)
(* deleted, until it expires), and its types add up to its total. *)
SerialBadgeCoversPersonal ==
    ~overlap /\ clean /\ (\A h \in Handlers : pc[h] = "idle") =>
        \A u \in Users : badge[u] # None =>
            /\ {n \in Unread(u) : notes[n].to = u} \subseteq badge[u].total
            /\ badge[u].types = badge[u].total

(* The count and the insert of RegisterWebhook are apart: without error an  *)
(* event is delivered once to a URL, or at most as often as requests can    *)
(* stand between the two. *)
WebhooksWithinHandlers ==
    clean => \A k \in Hooks : hooks[k].on <= IF overlap THEN Cardinality(Handlers) ELSE 1

NotificationsSound == TypeOK /\ SerialBadgeCoversPersonal /\ WebhooksWithinHandlers
=============================================================================
