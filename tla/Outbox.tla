-------------------------------- MODULE Outbox --------------------------------
(***************************************************************************)
(* The transactional outbox of OrderService (services/business/Order.go,   *)
(* layer 4): orders commit with a pending event, relay workers poll the    *)
(* table and hand each event to the KOT, inventory and analytics notifiers.*)
(*                                                                         *)
(* The SELECT ... FOR UPDATE SKIP LOCKED runs outside any transaction, so  *)
(* its row locks end with the statement: a worker goes on with copies of   *)
(* the rows (`batch') and writes them back by primary key.  All errors of  *)
(* those UPDATEs are ignored.                                              *)
(***************************************************************************)
EXTENDS Integers, FiniteSets

CONSTANTS
    Pods,          \* processes that run a relay worker
    Orders,        \* orders that may be submitted; each has one event
    NoOrder,
    BatchLimit,    \* LIMIT 50
    MaxRetries,    \* maxOutboxRetries
    Flaky,         \* whether notifiers return errors
    MaxFaults      \* bound on crashes and lost UPDATEs

ASSUME OutboxAssumption ==
    /\ NoOrder \notin Orders
    /\ BatchLimit \in Nat \ {0} /\ MaxRetries \in Nat \ {0}
    /\ Flaky \in BOOLEAN /\ MaxFaults \in Nat

VARIABLES
    status,     \* status column of the event, "none" before the order
    attempts,   \* attempts column
    due,        \* events whose next_retry_at has passed
    kots,       \* number of KOT rows of the order
    batch,      \* [pod -> copies still to process, as [order -> attempts]]
    cur,        \* the event a pod works on
    tries,      \* event.Attempts in the pod's copy of it
    pc,
    failed,     \* pods with a delivery error for the current event
    faults

table == <<status, attempts, due>>
worker == <<batch, cur, tries, pc, failed>>
vars == <<table, kots, worker, faults>>

NoBatch == [o \in {} |-> 0]

Init ==
    /\ status = [o \in Orders |-> "none"]
    /\ attempts = [o \in Orders |-> 0]
    /\ due = {}
    /\ kots = [o \in Orders |-> 0]
    /\ batch = [p \in Pods |-> NoBatch]
    /\ cur = [p \in Pods |-> NoOrder]
    /\ tries = [p \in Pods |-> 0]
    /\ pc = [p \in Pods |-> "idle"]
    /\ failed = {}
    /\ faults = 0

Goto(p, step) == pc' = [pc EXCEPT ![p] = step]

(* runTransaction commits: the order and its event appear together. *)
CommitOrder(o) ==
    /\ status[o] = "none"
    /\ status' = [status EXCEPT ![o] = "pending"]
    /\ due' = due \cup {o}
    /\ UNCHANGED <<attempts, kots, worker, faults>>

(* next_retry_at passes. *)
Backoff(o) ==
    /\ status[o] = "pending" /\ o \notin due
    /\ due' = due \cup {o}
    /\ UNCHANGED <<status, attempts, kots, worker, faults>>

-----------------------------------------------------------------------------
(* processOutboxBatch. *)

Ready == {o \in Orders : status[o] = "pending" /\ o \in due}

(* Which of more than BatchLimit rows come first is left open. *)
Selections ==
    {S \in SUBSET Ready :
        Cardinality(S) = IF Cardinality(Ready) < BatchLimit THEN Cardinality(Ready)
                         ELSE BatchLimit}

SelectBatch(p) ==
    /\ pc[p] = "idle" /\ Ready # {}
    /\ \E S \in Selections : batch' = [batch EXCEPT ![p] = [o \in S |-> attempts[o]]]
    /\ Goto(p, "claim")
    /\ UNCHANGED <<table, kots, cur, tries, failed, faults>>

(* A poll that finds nothing. *)
PollNothing(p) == pc[p] = "idle" /\ Ready = {} /\ UNCHANGED vars

(* The first UPDATE of processOneOutboxEvent: processing, and one attempt   *)
(* more than the copy had, in the row and in the copy. *)
Claim(p) ==
    /\ pc[p] = "claim"
    /\ \E o \in DOMAIN batch[p] :
         /\ batch' = [batch EXCEPT ![p] = [x \in DOMAIN @ \ {o} |-> @[x]]]
         /\ cur' = [cur EXCEPT ![p] = o]
         /\ tries' = [tries EXCEPT ![p] = batch[p][o] + 1]
         /\ \/ /\ status' = [status EXCEPT ![o] = "processing"]
               /\ attempts' = [attempts EXCEPT ![o] = batch[p][o] + 1]
               /\ UNCHANGED faults
            \/ /\ faults < MaxFaults /\ faults' = faults + 1
               /\ UNCHANGED <<status, attempts>>
    /\ failed' = failed \ {p}
    /\ Goto(p, "lookup")
    /\ UNCHANGED <<due, kots>>

-----------------------------------------------------------------------------
(* The notifiers.  InventoryNotifier returns nil. *)

(* A notifier returns an error: it is recorded and the next one is called. *)
NotifierFails(p, step) ==
    /\ Flaky
    /\ failed' = failed \cup {p}
    /\ Goto(p, step)

(* KOTNotifier: a KOT of the order ends it, otherwise one is created. *)
LookupKOT(p) ==
    /\ pc[p] = "lookup"
    /\ \/ /\ Goto(p, IF kots[cur[p]] > 0 THEN "analytics" ELSE "create")
          /\ UNCHANGED failed
       \/ NotifierFails(p, "analytics")
    /\ UNCHANGED <<table, kots, batch, cur, tries, faults>>

(* Mutant: the index on (tenant_id, kot_number) is not unique. *)
NumberTaken_Never(o) == FALSE

(* The number comes with the payload, so a KOT of this event, whoever       *)
(* created it, has the same one. *)
NumberTaken(o) == kots[o] > 0

CreateKOT(p) ==
    /\ pc[p] = "create"
    /\ \/ /\ ~NumberTaken(cur[p])
          /\ kots' = [kots EXCEPT ![cur[p]] = @ + 1]
          /\ Goto(p, "analytics")
          /\ UNCHANGED failed
       \/ /\ NumberTaken(cur[p])
          /\ failed' = failed \cup {p}
          /\ Goto(p, "analytics")
          /\ UNCHANGED kots
       \/ NotifierFails(p, "analytics") /\ UNCHANGED kots
    /\ UNCHANGED <<table, batch, cur, tries, faults>>

(* AnalyticsNotifier: one DEL of analytics:revenue:{tenant}:{date}.  Nobody *)
(* writes that key: the figures are cached under analytics:revenue:overview *)
(* and analytics:revenue:trend (analytics.go:217, 323).  So the call drops  *)
(* nothing, and whether it fails is all there is to it. *)
InvalidateRevenue(p) ==
    /\ pc[p] = "analytics"
    /\ \/ Goto(p, "settle") /\ UNCHANGED failed
       \/ NotifierFails(p, "settle")
    /\ UNCHANGED <<table, kots, batch, cur, tries, faults>>

-----------------------------------------------------------------------------
(* The last UPDATE, and on to the next copy. *)

(* Mutant: the status is not put back to pending for the retry. *)
Outcome_KeepProcessing(p) ==
    IF p \notin failed THEN "delivered"
    ELSE IF tries[p] >= MaxRetries THEN "failed"
    ELSE "processing"

Outcome(p) ==
    IF p \notin failed THEN "delivered"
    ELSE IF tries[p] >= MaxRetries THEN "failed"
    ELSE "pending"

NextCopy(p) ==
    /\ Goto(p, IF DOMAIN batch[p] = {} THEN "idle" ELSE "claim")
    /\ cur' = [cur EXCEPT ![p] = NoOrder]
    /\ tries' = [tries EXCEPT ![p] = 0]
    /\ failed' = failed \ {p}

Settle(p) ==
    /\ pc[p] = "settle"
    /\ \/ /\ status' = [status EXCEPT ![cur[p]] = Outcome(p)]
          /\ due' = IF p \in failed THEN due \ {cur[p]} ELSE due
          /\ UNCHANGED faults
       \/ /\ faults < MaxFaults /\ faults' = faults + 1
          /\ UNCHANGED <<status, due>>
    /\ NextCopy(p)
    /\ UNCHANGED <<attempts, kots, batch>>

(* The process stops; when it comes back its worker polls again. *)
Crash(p) ==
    /\ pc[p] # "idle" /\ faults < MaxFaults
    /\ faults' = faults + 1
    /\ Goto(p, "idle")
    /\ batch' = [batch EXCEPT ![p] = NoBatch]
    /\ cur' = [cur EXCEPT ![p] = NoOrder]
    /\ tries' = [tries EXCEPT ![p] = 0]
    /\ failed' = failed \ {p}
    /\ UNCHANGED <<table, kots>>

Process(p) ==
    \/ Claim(p) \/ LookupKOT(p) \/ CreateKOT(p) \/ InvalidateRevenue(p) \/ Settle(p)

Next ==
    \/ \E o \in Orders : CommitOrder(o) \/ Backoff(o)
    \/ \E p \in Pods : SelectBatch(p) \/ PollNothing(p) \/ Process(p) \/ Crash(p)

Spec == Init /\ [][Next]_vars

(* The ticker polls every five seconds, the loop runs each batch to its     *)
(* end, and the back-off is a finite time. *)
FairSpec ==
    /\ Spec
    /\ \A p \in Pods : WF_vars(SelectBatch(p)) /\ WF_vars(Process(p))
    /\ \A o \in Orders : WF_vars(Backoff(o))

-----------------------------------------------------------------------------
(* Properties. *)

Settled == {"delivered", "failed"}

(* Type invariant: event rows and workers; a worker without an event holds  *)
(* no copy. *)
TypeOK ==
    /\ status \in [Orders -> {"none", "pending", "processing"} \cup Settled]
    /\ attempts \in [Orders -> Nat]
    /\ due \subseteq Orders
    /\ kots \in [Orders -> Nat]
    /\ \A p \in Pods :
         /\ DOMAIN batch[p] \subseteq Orders
         /\ \A o \in DOMAIN batch[p] : batch[p][o] \in Nat
         /\ tries[p] \in Nat
         /\ cur[p] \in Orders \cup {NoOrder}
         /\ cur[p] = NoOrder <=> pc[p] \in {"idle", "claim"}
    /\ pc \in [Pods -> {"idle", "claim", "lookup", "create", "analytics", "settle"}]
    /\ failed \subseteq Pods
    /\ faults \in 0..MaxFaults

(* An event marked delivered has reached the kitchen: its order has a KOT,  *)
(* whatever workers, errors and crashes there were in between               *)
(* (Order.go:988-1031).                                                     *)
DeliveredIsDone == \A o \in Orders : status[o] = "delivered" => kots[o] > 0

(* "Idempotent - safe to call multiple times for the same order"            *)
(* (Order.go:210): however often events are delivered again, by however     *)
(* many workers, the notifier leaves one KOT per order.                     *)
OneKOTPerOrder == \A o \in Orders : kots[o] <= 1

OutboxSound == TypeOK /\ DeliveredIsDone /\ OneKOTPerOrder

(* Without crashes every order's event ends up delivered or given up after  *)
(* maxOutboxRetries, and stays so: although a worker with an old copy may   *)
(* put a settled event back (Order.go:970-1031), the retries come to an end *)
(* and no worker leaves an event behind.                                    *)
EventSettles ==
    [](faults = 0) => \A o \in Orders : status[o] # "none" ~> [](status[o] \in Settled)

(* "KOTNotifier creates a KOT + KOTItems in the kitchen when an order is    *)
(* placed" (Order.go:209): a placed order gets its KOT in the end.          *)
PlacedOrderGetsKOT == \A o \in Orders : status[o] # "none" ~> kots[o] > 0
=============================================================================
