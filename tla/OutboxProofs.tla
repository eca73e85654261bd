------------------------------ MODULE OutboxProofs ------------------------------
(***************************************************************************)
(* OutboxSound for any number of workers, orders, retries, errors and      *)
(* crashes.                                                                *)
(*                                                                         *)
(* The invariant follows an event through a worker: past the KOT notifier  *)
(* its order has a ticket, unless a notifier has failed.                   *)
(***************************************************************************)
EXTENDS Outbox, TLAPS

(* What the KOT notifier has done for the event, if none has failed. *)
Notified(p) == p \notin failed /\ pc[p] \in {"analytics", "settle"} => kots[cur[p]] > 0

(* The inductive invariant. *)
OutboxInv ==
    /\ OutboxSound
    /\ DOMAIN batch = Pods /\ DOMAIN cur = Pods /\ DOMAIN tries = Pods
    /\ \A p \in Pods : Notified(p)

-----------------------------------------------------------------------------
(* The invariant holds initially. *)
LEMMA OutboxInit == Init => OutboxInv
<1> SUFFICES ASSUME Init PROVE OutboxInv
  OBVIOUS
<1>1. TypeOK
  BY OutboxAssumption DEF Init, TypeOK, NoBatch
<1> QED
  BY <1>1, OutboxAssumption DEF Init, OutboxInv, OutboxSound, DeliveredIsDone, OneKOTPerOrder, Notified, NoBatch

(* A new order keeps the invariant. *)
LEMMA CommitOrderStep == ASSUME OutboxInv, NEW o \in Orders, CommitOrder(o) PROVE OutboxInv'
<1> USE DEF CommitOrder, OutboxInv, OutboxSound, worker
<1>1. TypeOK'
  BY DEF TypeOK
<1>2. DeliveredIsDone' /\ OneKOTPerOrder'
  BY DEF TypeOK, DeliveredIsDone, OneKOTPerOrder
<1>3. ASSUME NEW p \in Pods PROVE Notified(p)'
  BY <1>3 DEF TypeOK, Notified
<1> QED
  BY <1>1, <1>2, <1>3

(* A retry that falls due keeps it. *)
LEMMA BackoffStep == ASSUME OutboxInv, NEW o \in Orders, Backoff(o) PROVE OutboxInv'
BY DEF Backoff, OutboxInv, OutboxSound, worker, TypeOK, DeliveredIsDone, OneKOTPerOrder, Notified

(* Polling keeps it. *)
LEMMA SelectBatchStep == ASSUME OutboxInv, NEW p \in Pods, SelectBatch(p) PROVE OutboxInv'
<1> USE DEF SelectBatch, OutboxInv, OutboxSound, table
<1>1. PICK S \in SUBSET Orders : batch' = [batch EXCEPT ![p] = [o \in S |-> attempts[o]]]
  BY DEF Selections, Ready
<1>2. batch'[p] = [o \in S |-> attempts[o]] /\ DOMAIN batch'[p] = S /\ DOMAIN batch' = Pods
      /\ \A q \in Pods : q # p => batch'[q] = batch[q]
  BY <1>1
<1>3. TypeOK'
  BY <1>2 DEF TypeOK, Goto
<1>4. DeliveredIsDone' /\ OneKOTPerOrder'
  BY DEF DeliveredIsDone, OneKOTPerOrder
<1>5. ASSUME NEW q \in Pods PROVE Notified(q)'
  BY <1>1, <1>2 DEF TypeOK, Goto, Notified
<1> QED
  BY <1>2, <1>3, <1>4, <1>5

(* Taking the next event of the batch keeps it. *)
LEMMA ClaimStep == ASSUME OutboxInv, NEW p \in Pods, Claim(p) PROVE OutboxInv'
<1> USE DEF Claim, OutboxInv, OutboxSound
<1>1. PICK o \in DOMAIN batch[p] :
        /\ batch' = [batch EXCEPT ![p] = [x \in DOMAIN @ \ {o} |-> @[x]]]
        /\ cur' = [cur EXCEPT ![p] = o]
        /\ tries' = [tries EXCEPT ![p] = batch[p][o] + 1]
        /\ \/ /\ status' = [status EXCEPT ![o] = "processing"]
              /\ attempts' = [attempts EXCEPT ![o] = batch[p][o] + 1]
              /\ UNCHANGED faults
           \/ /\ faults < MaxFaults /\ faults' = faults + 1
              /\ UNCHANGED <<status, attempts>>
  OBVIOUS
<1>2. o \in Orders /\ batch[p][o] \in Nat
  BY <1>1 DEF TypeOK
<1>3. /\ DOMAIN batch' = Pods /\ DOMAIN batch'[p] = DOMAIN batch[p] \ {o}
      /\ \A x \in DOMAIN batch'[p] : batch'[p][x] = batch[p][x]
      /\ \A q \in Pods : q # p => batch'[q] = batch[q]
  BY <1>1
<1>4. /\ DOMAIN cur' = Pods /\ DOMAIN tries' = Pods /\ cur'[p] = o /\ tries'[p] \in Nat
      /\ \A q \in Pods : q # p => cur'[q] = cur[q] /\ tries'[q] = tries[q]
  BY <1>1, <1>2
<1>5. pc' \in [Pods -> {"idle", "claim", "lookup", "create", "analytics", "settle"}] /\ pc'[p] = "lookup"
      /\ \A q \in Pods : q # p => pc'[q] = pc[q]
  BY DEF TypeOK, Goto
<1>6. /\ status' \in [Orders -> {"none", "pending", "processing"} \cup Settled]
      /\ attempts' \in [Orders -> Nat] /\ faults' \in 0..MaxFaults
      /\ \A x \in Orders : status'[x] \in {status[x], "processing"}
  BY <1>1, <1>2, OutboxAssumption DEF TypeOK
<1>7. TypeOK'
  BY <1>2, <1>3, <1>4, <1>5, <1>6, OutboxAssumption DEF TypeOK
<1>8. DeliveredIsDone' /\ OneKOTPerOrder'
  BY <1>6 DEF DeliveredIsDone, OneKOTPerOrder
<1>9. ASSUME NEW q \in Pods PROVE Notified(q)'
  BY <1>2, <1>3, <1>4, <1>5, <1>6 DEF TypeOK, Notified
<1> QED
  BY <1>3, <1>4, <1>7, <1>8, <1>9

(* Each notifier keeps it, whether it succeeds or fails. *)
LEMMA NotifierStep ==
    ASSUME OutboxInv, NEW p \in Pods, LookupKOT(p) \/ CreateKOT(p) \/ InvalidateRevenue(p)
    PROVE  OutboxInv'
<1> USE DEF OutboxInv, OutboxSound, table
<1>1. /\ pc[p] \in {"lookup", "create", "analytics"} /\ cur[p] \in Orders
      /\ UNCHANGED <<table, batch, cur, tries, faults>>
  BY DEF LookupKOT, CreateKOT, InvalidateRevenue, TypeOK
<1>2. /\ pc' = [pc EXCEPT ![p] = pc'[p]] /\ pc'[p] \in {"create", "analytics", "settle"}
      /\ failed' \in {failed, failed \cup {p}}
      /\ kots' = kots \/ (kots[cur[p]] = 0 /\ kots' = [kots EXCEPT ![cur[p]] = 1])
      /\ p \notin failed' /\ pc'[p] \in {"analytics", "settle"} => kots'[cur[p]] > 0
  <2>1. CASE LookupKOT(p)
    BY <2>1, <1>1 DEF LookupKOT, NotifierFails, Goto, TypeOK
  <2>2. CASE CreateKOT(p)
    BY <2>2, <1>1 DEF CreateKOT, NotifierFails, Goto, NumberTaken, TypeOK
  <2>3. CASE InvalidateRevenue(p)
    BY <2>3, <1>1 DEF InvalidateRevenue, NotifierFails, Goto, TypeOK, Notified
  <2> QED
    BY <2>1, <2>2, <2>3
<1>3. kots' \in [Orders -> Nat] /\ \A o \in Orders : kots[o] <= kots'[o] /\ kots'[o] <= 1
  BY <1>1, <1>2 DEF TypeOK, OneKOTPerOrder
<1>4. pc'[p] \in {"create", "analytics", "settle"} /\ \A q \in Pods : q # p => pc'[q] = pc[q]
  BY <1>2 DEF TypeOK
<1>5. TypeOK'
  BY <1>1, <1>2, <1>3, <1>4, OutboxAssumption DEF TypeOK
<1>6. DeliveredIsDone' /\ OneKOTPerOrder'
  BY <1>1, <1>2, <1>3 DEF DeliveredIsDone, OneKOTPerOrder, TypeOK
<1>7. ASSUME NEW q \in Pods PROVE Notified(q)'
  <2>1. CASE q = p
    BY <1>1, <1>2, <2>1 DEF Notified
  <2>2. CASE q # p
    <3>1. pc[q] \in {"analytics", "settle"} => cur[q] \in Orders /\ kots[cur[q]] \in Nat /\ kots'[cur[q]] \in Nat
      BY <1>3 DEF TypeOK
    <3>2. pc'[q] = pc[q] /\ cur'[q] = cur[q] /\ (q \in failed' <=> q \in failed)
      BY <1>1, <1>2, <1>4, <2>2
    <3>3. pc[q] \in {"analytics", "settle"} /\ kots[cur[q]] > 0 => kots'[cur[q]] > 0
      BY <1>3, <3>1
    <3> QED
      BY <3>2, <3>3 DEF Notified
  <2> QED
    BY <2>1, <2>2
<1> QED
  BY <1>1, <1>5, <1>6, <1>7

(* Writing the outcome keeps it: delivered only if none has failed. *)
LEMMA SettleStep == ASSUME OutboxInv, NEW p \in Pods, Settle(p) PROVE OutboxInv'
<1> USE DEF OutboxInv, OutboxSound, Settle, NextCopy
<1>1. cur[p] \in Orders
  BY DEF TypeOK
<1>2. /\ \A q \in Pods : q # p => pc'[q] = pc[q] /\ cur'[q] = cur[q] /\ tries'[q] = tries[q]
      /\ pc'[p] \in {"idle", "claim"} /\ cur'[p] = NoOrder /\ tries'[p] = 0
      /\ pc' \in [Pods -> {"idle", "claim", "lookup", "create", "analytics", "settle"}]
      /\ DOMAIN cur' = Pods /\ DOMAIN tries' = Pods
  BY DEF Goto, TypeOK
<1>3. /\ status' \in [Orders -> {"none", "pending", "processing"} \cup Settled]
      /\ \A o \in Orders :
            \/ status'[o] = status[o]
            \/ o = cur[p] /\ (status'[o] = "delivered" => p \notin failed)
      /\ due' \subseteq Orders /\ faults' \in 0..MaxFaults
  BY <1>1, OutboxAssumption DEF TypeOK, Outcome, Settled
<1>4. TypeOK'
  BY <1>2, <1>3, OutboxAssumption DEF TypeOK
<1>5. DeliveredIsDone' /\ OneKOTPerOrder'
  BY <1>1, <1>3 DEF DeliveredIsDone, OneKOTPerOrder, Notified
<1>6. ASSUME NEW q \in Pods PROVE Notified(q)'
  BY <1>2, <1>3 DEF Notified, TypeOK
<1> QED
  BY <1>2, <1>4, <1>5, <1>6

(* A worker that stops keeps it. *)
LEMMA CrashStep == ASSUME OutboxInv, NEW p \in Pods, Crash(p) PROVE OutboxInv'
<1> USE DEF OutboxInv, OutboxSound, Crash, table
<1>1. /\ \A q \in Pods : q # p => pc'[q] = pc[q] /\ cur'[q] = cur[q] /\ tries'[q] = tries[q] /\ batch'[q] = batch[q]
      /\ pc'[p] = "idle" /\ cur'[p] = NoOrder /\ tries'[p] = 0 /\ batch'[p] = NoBatch
      /\ pc' \in [Pods -> {"idle", "claim", "lookup", "create", "analytics", "settle"}]
      /\ DOMAIN cur' = Pods /\ DOMAIN tries' = Pods /\ DOMAIN batch' = Pods
  BY DEF Goto, TypeOK
<1>2. DOMAIN NoBatch = {}
  BY DEF NoBatch
<1>3. TypeOK'
  BY <1>1, <1>2, OutboxAssumption DEF TypeOK
<1>4. DeliveredIsDone' /\ OneKOTPerOrder'
  BY DEF DeliveredIsDone, OneKOTPerOrder
<1>5. ASSUME NEW q \in Pods PROVE Notified(q)'
  BY <1>1, <1>2 DEF Notified, TypeOK
<1> QED
  BY <1>1, <1>3, <1>4, <1>5

(* Every step keeps the invariant. *)
LEMMA OutboxStep == OutboxInv /\ [Next]_vars => OutboxInv'
<1> SUFFICES ASSUME OutboxInv, [Next]_vars PROVE OutboxInv'
  OBVIOUS
<1>1. CASE UNCHANGED vars
  BY <1>1 DEF vars, table, worker, OutboxInv, OutboxSound, TypeOK, DeliveredIsDone, OneKOTPerOrder, 
     Notified
<1>2. ASSUME NEW p \in Pods, PollNothing(p) PROVE OutboxInv'
  BY <1>1, <1>2 DEF PollNothing
<1> QED
  BY <1>1, <1>2, CommitOrderStep, BackoffStep, SelectBatchStep, ClaimStep, NotifierStep, SettleStep, CrashStep
  DEF Next, Process

(* OutboxSound: the order of an event marked delivered has its ticket, and  *)
(* redelivery by whatever worker leaves one ticket per order                *)
(* (Order.go:210, 988-1031). *)
THEOREM OutboxSafety == Spec => []OutboxSound
<1>1. OutboxInv => OutboxSound
  BY DEF OutboxInv
<1> QED
  BY <1>1, OutboxInit, OutboxStep, PTL DEF Spec
=============================================================================
