------------------------------- MODULE Payment -------------------------------
(***************************************************************************)
(* PaymentService (backend/services/business/Payment.go): Fonepay QR       *)
(* payments, cash and card payments, refunds, the expiry sweeper and the   *)
(* goroutine that serves the order.                                        *)
(*                                                                         *)
(* Every request is a handler goroutine.  Between two database or gateway  *)
(* calls any other goroutine may run: a handler works on the row it loaded *)
(* (`mem'), fires the machine on that copy, and writes the status back     *)
(* with an UPDATE by primary key that does not look at the stored status.  *)
(***************************************************************************)
EXTENDS DomainFSMs, FiniteSets

CONSTANTS
    Handlers,    \* request goroutines that may be active at once
    Records,     \* payment_records rows that can be created
    Orders,      \* orders being paid for
    Overlaps,    \* whether requests may overlap: the answers to try
    MaxFaults,   \* bound on crashes and database errors
    None         \* no record, no order

ASSUME PaymentAssumption ==
    /\ None \notin Records \cup Orders
    /\ Overlaps \subseteq BOOLEAN
    /\ MaxFaults \in Nat

VARIABLES
    overlap,     \* the answer of this behaviour
    status,      \* status column of each row, "absent" before Create
    orderOf,     \* order_id column
    fonepay,     \* rows with payment_method = fonepay
    expired,     \* rows whose qr_expires_at has passed
    verified,    \* rows for which VerifyPayment has reported success
    orderStatus, \* orders.order_status
    pc,          \* next step of each handler
    rec,         \* the row a handler works on
    mem,         \* the status in the handler's copy of the row
    ord,         \* the order a handler works on
    stale,       \* rows the sweeper still has to fail
    advances,    \* tryAdvanceOrderToServed goroutines: <<order, step>>
    faults

db == <<status, orderOf, fonepay, expired>>
locals == <<rec, mem, ord, stale>>
vars == <<overlap, db, verified, orderStatus, pc, locals, advances, faults>>

Active == {"pending_qr", "awaiting_confirm"}
Exists(r) == status[r] # "absent"
PaymentsOf(o) == {r \in Records : Exists(r) /\ orderOf[r] = o}
QRsOf(o) == {r \in PaymentsOf(o) : status[r] \in Active}

Init ==
    /\ overlap \in Overlaps
    /\ status = [r \in Records |-> "absent"]
    /\ orderOf = [r \in Records |-> None]
    /\ fonepay = {} /\ expired = {} /\ verified = {}
    /\ orderStatus \in [Orders -> {"preparing", "ready"}]
    /\ pc = [h \in Handlers |-> "idle"]
    /\ rec = [h \in Handlers |-> None]
    /\ mem = [h \in Handlers |-> "absent"]
    /\ ord = [h \in Handlers |-> None]
    /\ stale = [h \in Handlers |-> {}]
    /\ advances = {}
    /\ faults = 0

(* The handler returns: its copies are garbage. *)
Done(h) ==
    /\ pc' = [pc EXCEPT ![h] = "idle"]
    /\ rec' = [rec EXCEPT ![h] = None]
    /\ mem' = [mem EXCEPT ![h] = "absent"]
    /\ ord' = [ord EXCEPT ![h] = None]
    /\ stale' = [stale EXCEPT ![h] = {}]

(* A goroutine takes a new request; when requests do not overlap, only once *)
(* the one before has returned. *)
MayStart(h) ==
    /\ pc[h] = "idle"
    /\ overlap \/ \A g \in Handlers : pc[g] = "idle"

Goto(h, step) == pc' = [pc EXCEPT ![h] = step]

(* firePaymentFSM on the handler's copy: its new status. *)
Fire(h, e) ==
    /\ Can(PaymentFSM, mem[h], e)
    /\ mem' = [mem EXCEPT ![h] = Target(PaymentFSM, mem[h], e)]

(* UPDATE payment_records SET status = ... WHERE payment_record_id = ... *)
Save(h) == status' = [status EXCEPT ![rec[h]] = mem[h]]

-----------------------------------------------------------------------------
(* InitiateQRPayment and RegenerateQR. *)

(* Mutant: no idempotency check. *)
QRBlocked_Never(o) == FALSE

(* The idempotency SELECT finds a row: ErrQRAlreadyPending. *)
QRBlocked(o) == QRsOf(o) # {}

InitiateQR(h, o) ==
    /\ MayStart(h)
    /\ ~QRBlocked(o)
    /\ ord' = [ord EXCEPT ![h] = o]
    /\ Goto(h, "generate")
    /\ UNCHANGED <<db, verified, orderStatus, rec, mem, stale, advances, faults>>

(* RegenerateQR: only for a failed Fonepay row, then InitiateQRPayment. *)
RegenerateLoad(h, r) ==
    /\ MayStart(h)
    /\ r \in fonepay /\ status[r] = "failed"
    /\ ord' = [ord EXCEPT ![h] = orderOf[r]]
    /\ Goto(h, "recheck")
    /\ UNCHANGED <<db, verified, orderStatus, rec, mem, stale, advances, faults>>

RegenerateCheck(h) ==
    /\ pc[h] = "recheck"
    /\ IF QRBlocked(ord[h])
       THEN Done(h)
       ELSE Goto(h, "generate") /\ UNCHANGED locals
    /\ UNCHANGED <<db, verified, orderStatus, advances, faults>>

(* Fonepay's GenerateQR answers, or fails and the call returns its error. *)
GenerateQR(h) ==
    /\ pc[h] = "generate"
    /\ \/ Goto(h, "create") /\ UNCHANGED locals
       \/ Done(h)
    /\ UNCHANGED <<db, verified, orderStatus, advances, faults>>

CreateQR(h) ==
    /\ pc[h] = "create"
    /\ \E r \in Records :
         /\ ~Exists(r)
         /\ status' = [status EXCEPT ![r] = "pending_qr"]
         /\ orderOf' = [orderOf EXCEPT ![r] = ord[h]]
         /\ fonepay' = fonepay \cup {r}
    /\ Done(h)
    /\ UNCHANGED <<expired, verified, orderStatus, advances, faults>>

(* Bound: no row left to create. *)
CreateBounded(h) ==
    /\ pc[h] = "create" /\ \A r \in Records : Exists(r)
    /\ Done(h)
    /\ UNCHANGED <<db, verified, orderStatus, advances, faults>>

-----------------------------------------------------------------------------
(* HandleFonepayCallback. *)

(* Steps 1-4: load by verify_token; anything but pending_qr is returned as  *)
(* it is.  The machine is fired on the copy, which is then saved. *)
CallbackLoad(h, r) ==
    /\ MayStart(h)
    /\ r \in fonepay /\ status[r] = "pending_qr"
    /\ rec' = [rec EXCEPT ![h] = r]
    /\ IF r \in expired
       THEN mem' = [mem EXCEPT ![h] = Target(PaymentFSM, "pending_qr", "fail")]
            /\ Goto(h, "save_failed")
       ELSE mem' = [mem EXCEPT ![h] = Target(PaymentFSM, "pending_qr", "qr_scanned")]
            /\ Goto(h, "save_awaiting")
    /\ UNCHANGED <<db, verified, orderStatus, ord, stale, advances, faults>>

(* Step 5. *)
SaveAwaiting(h) ==
    /\ pc[h] = "save_awaiting"
    /\ Save(h)
    /\ Goto(h, "verify")
    /\ UNCHANGED <<orderOf, fonepay, expired, verified, orderStatus, locals, advances, faults>>

(* Mutant: an answer without Success is taken for a success. *)
VerifyPayment_IgnoreSuccess(h) ==
    /\ pc[h] = "verify"
    /\ \/ /\ verified' = verified \cup {rec[h]}
          /\ Fire(h, "payment_received")
          /\ Goto(h, "save_confirmed")
       \/ /\ Fire(h, "payment_received")
          /\ Goto(h, "save_confirmed")
          /\ UNCHANGED verified
    /\ UNCHANGED <<db, orderStatus, rec, ord, stale, advances, faults>>

(* Steps 6-7: the gateway answers with success; or it declines, fails, or   *)
(* the parameters do not parse, which all end in failPayment. *)
VerifyPayment(h) ==
    /\ pc[h] = "verify"
    /\ \/ /\ verified' = verified \cup {rec[h]}
          /\ Fire(h, "payment_received")
          /\ Goto(h, "save_confirmed")
       \/ /\ Fire(h, "fail")
          /\ Goto(h, "save_failed")
          /\ UNCHANGED verified
    /\ UNCHANGED <<db, orderStatus, rec, ord, stale, advances, faults>>

(* The end of the success path: save, start the goroutine, audit. *)
SaveConfirmed(h) ==
    /\ pc[h] = "save_confirmed"
    /\ Save(h)
    /\ advances' = advances \cup {<<orderOf[rec[h]], "load">>}
    /\ Done(h)
    /\ UNCHANGED <<orderOf, fonepay, expired, verified, orderStatus, faults>>

(* Mutant: the order is advanced for a failed payment too. *)
SaveFailed_Advance(h) ==
    /\ pc[h] = "save_failed"
    /\ Save(h)
    /\ advances' = advances \cup {<<orderOf[rec[h]], "load">>}
    /\ IF stale[h] = {} THEN Done(h) ELSE Goto(h, "sweep") /\ UNCHANGED locals
    /\ UNCHANGED <<orderOf, fonepay, expired, verified, orderStatus, faults>>

(* The UPDATE of failPayment; a sweeper goes on to its next row. *)
SaveFailed(h) ==
    /\ pc[h] = "save_failed"
    /\ Save(h)
    /\ IF stale[h] = {} THEN Done(h) ELSE Goto(h, "sweep") /\ UNCHANGED locals
    /\ UNCHANGED <<orderOf, fonepay, expired, verified, orderStatus, advances, faults>>

-----------------------------------------------------------------------------
(* ExpireStaleQRs: one SELECT, then failPayment on each loaded row. *)

(* Mutant: the comparison with the current time is the wrong way round. *)
StaleRows_Unexpired == {r \in fonepay : status[r] = "pending_qr" /\ r \notin expired}

StaleRows == {r \in fonepay : status[r] = "pending_qr" /\ r \in expired}

SweepSelect(h) ==
    /\ MayStart(h)
    /\ StaleRows # {}
    /\ stale' = [stale EXCEPT ![h] = StaleRows]
    /\ Goto(h, "sweep")
    /\ UNCHANGED <<overlap, db, verified, orderStatus, rec, mem, ord, advances, faults>>

SweepNext(h) ==
    /\ pc[h] = "sweep"
    /\ \E r \in stale[h] :
         /\ rec' = [rec EXCEPT ![h] = r]
         /\ mem' = [mem EXCEPT ![h] = Target(PaymentFSM, "pending_qr", "fail")]
         /\ stale' = [stale EXCEPT ![h] = @ \ {r}]
    /\ Goto(h, "save_failed")
    /\ UNCHANGED <<db, verified, orderStatus, ord, advances, faults>>

-----------------------------------------------------------------------------
(* RefundPayment and RecordCashOrCard. *)

(* Mutant: the machine is not asked. *)
RefundLoad_NoFSM(h, r) ==
    /\ MayStart(h)
    /\ Exists(r)
    /\ rec' = [rec EXCEPT ![h] = r]
    /\ mem' = [mem EXCEPT ![h] = "refunded"]
    /\ Goto(h, "save_refunded")
    /\ UNCHANGED <<db, verified, orderStatus, ord, stale, advances, faults>>

(* Approved by a manager: load the row and fire refund on the copy. *)
RefundLoad(h, r) ==
    /\ MayStart(h)
    /\ Exists(r) /\ Can(PaymentFSM, status[r], "refund")
    /\ rec' = [rec EXCEPT ![h] = r]
    /\ mem' = [mem EXCEPT ![h] = Target(PaymentFSM, status[r], "refund")]
    /\ Goto(h, "save_refunded")
    /\ UNCHANGED <<db, verified, orderStatus, ord, stale, advances, faults>>

SaveRefunded(h) ==
    /\ pc[h] = "save_refunded"
    /\ Save(h)
    /\ Done(h)
    /\ UNCHANGED <<orderOf, fonepay, expired, verified, orderStatus, advances, faults>>

(* One INSERT with status confirmed, whatever the order's other payments. *)
RecordCashOrCard(h, o) ==
    /\ MayStart(h)
    /\ \E r \in Records :
         /\ ~Exists(r)
         /\ status' = [status EXCEPT ![r] = "confirmed"]
         /\ orderOf' = [orderOf EXCEPT ![r] = o]
    /\ UNCHANGED <<fonepay, expired, verified, orderStatus, pc, locals, advances, faults>>

-----------------------------------------------------------------------------
(* tryAdvanceOrderToServed: load the order and fire serve on the copy; any  *)
(* error ends the goroutine silently. *)
AdvanceLoad(o) ==
    /\ <<o, "load">> \in advances
    /\ advances' = (advances \ {<<o, "load">>})
                   \cup IF Can(OrderFSM, orderStatus[o], "serve") THEN {<<o, "save">>} ELSE {}
    /\ UNCHANGED <<db, verified, orderStatus, pc, locals, faults>>

AdvanceSave(o) ==
    /\ <<o, "save">> \in advances
    /\ orderStatus' = [orderStatus EXCEPT ![o] = "served"]
    /\ advances' = advances \ {<<o, "save">>}
    /\ UNCHANGED <<db, verified, pc, locals, faults>>

-----------------------------------------------------------------------------
(* The environment. *)

(* Thirty minutes pass. *)
Expire(r) ==
    /\ r \in fonepay /\ r \notin expired
    /\ expired' = expired \cup {r}
    /\ UNCHANGED <<overlap, status, orderOf, fonepay, verified, orderStatus, pc, locals, advances,
                   faults>>

(* A handler ends before its next call: the process stops, the request is   *)
(* cancelled, or a database call returns an error and the handler returns   *)
(* it - ExpireStaleQRs alone goes on with its next row. *)
Fault(h) ==
    /\ pc[h] # "idle" /\ faults < MaxFaults
    /\ faults' = faults + 1
    /\ \/ Done(h)
       \/ stale[h] # {} /\ Goto(h, "sweep") /\ UNCHANGED locals
    /\ UNCHANGED <<overlap, db, verified, orderStatus, advances>>

(* A request that is answered without touching anything: a second QR for a  *)
(* blocked order, a callback for a row that is not pending_qr any more.     *)
AnswerOnly(h) ==
    /\ pc[h] = "idle"
    /\ \/ \E o \in Orders : QRBlocked(o)
       \/ \E r \in fonepay : status[r] # "pending_qr"
    /\ UNCHANGED vars

(* The next step of a handler in the middle of a request. *)
Continue(h) ==
    /\ UNCHANGED overlap
    /\ \/ RegenerateCheck(h) \/ GenerateQR(h) \/ CreateQR(h) \/ CreateBounded(h)
       \/ SaveAwaiting(h) \/ VerifyPayment(h) \/ SaveConfirmed(h) \/ SaveFailed(h)
       \/ SweepNext(h) \/ SaveRefunded(h)

Request(h) ==
    /\ UNCHANGED overlap
    /\ \/ \E o \in Orders : InitiateQR(h, o) \/ RecordCashOrCard(h, o)
       \/ \E r \in Records : RegenerateLoad(h, r) \/ CallbackLoad(h, r) \/ RefundLoad(h, r)

Advance ==
    /\ UNCHANGED overlap
    /\ \E o \in Orders : AdvanceLoad(o) \/ AdvanceSave(o)

Next ==
    \/ \E h \in Handlers :
         Continue(h) \/ Request(h) \/ SweepSelect(h) \/ Fault(h) \/ AnswerOnly(h)
    \/ Advance
    \/ \E r \in Records : Expire(r)

Spec == Init /\ [][Next]_vars

(* Requests run to their end, time passes, and the sweeper is run by the    *)
(* minute ticker its comment recommends (Payment.go:787-797).  That ticker  *)
(* is a goroutine of its own, so other requests, with which it shares the   *)
(* handlers here, do not keep it waiting for ever: hence SF.                *)
FairSpec ==
    /\ Spec
    /\ \A h \in Handlers : WF_vars(Continue(h))
    /\ SF_vars(\E h \in Handlers : SweepSelect(h))
    /\ \A r \in Records : WF_vars(Expire(r))
    /\ WF_vars(Advance)

-----------------------------------------------------------------------------
(* Properties. *)

Statuses == PaymentFSM.states \cup {"absent"}

(* Type invariant: rows, handlers' copies and goroutines. *)
TypeOK ==
    /\ overlap \in Overlaps
    /\ status \in [Records -> Statuses]
    /\ orderOf \in [Records -> Orders \cup {None}]
    /\ fonepay \subseteq Records /\ expired \subseteq fonepay /\ verified \subseteq fonepay
    /\ orderStatus \in [Orders -> OrderFSM.states]
    /\ pc \in [Handlers -> {"idle", "recheck", "generate", "create", "save_awaiting", "verify",
                            "save_confirmed", "save_failed", "sweep", "save_refunded"}]
    /\ rec \in [Handlers -> Records \cup {None}]
    /\ mem \in [Handlers -> Statuses]
    /\ ord \in [Handlers -> Orders \cup {None}]
    /\ stale \in [Handlers -> SUBSET Records]
    /\ advances \subseteq Orders \X {"load", "save"}
    /\ faults \in 0..MaxFaults

(* However callbacks, sweeps, refunds and faults interleave, a Fonepay row  *)
(* is confirmed or refunded only if the gateway has verified that very      *)
(* payment (Payment.go:437-463). *)
ConfirmedOnlyIfVerified ==
    \A r \in fonepay : status[r] \in {"confirmed", "refunded"} => r \in verified

(* An order is served by the payment service only when a payment of that    *)
(* order is verified (Payment.go:469-471, 854-877). *)
ServedOnlyIfPaid ==
    [][\A o \in Orders : orderStatus[o] # "served" /\ orderStatus'[o] = "served"
         => \E r \in PaymentsOf(o) : r \in verified]_vars

(* The change of a row is one of PaymentFSM's transitions. *)
FollowsFSM(r) ==
    Exists(r) /\ status'[r] # status[r]
      => \E t \in PaymentFSM.trans : t[1] = status[r] /\ t[3] = status'[r]

(* PaymentFSM governs the stored status, so that a failed or refunded row   *)
(* stays as it is - "Machines in terminal states reject all further events" *)
(* (FSM.go:280) and "payment is in a terminal state and cannot be modified" *)
(* (Payment.go:75) - when requests do not overlap, crashes and errors       *)
(* between any two steps included. *)
SerialStatusFollowsFSM == [][~overlap => \A r \in Records : FollowsFSM(r)]_vars

(* At most one QR of an order is active: "A second call while a pending_qr  *)
(* or awaiting_confirm record exists returns the existing QR rather than    *)
(* billing Fonepay twice" (Payment.go:31-33) - by InitiateQRPayment as by   *)
(* RegenerateQR, as long as requests do not overlap. *)
SerialOneActiveQR == ~overlap => \A o \in Orders : Cardinality(QRsOf(o)) <= 1

(* The types and the rule on active QRs. *)
PaymentSound == TypeOK /\ SerialOneActiveQR

(* Unless a request breaks off, a QR that has been issued does not stay     *)
(* active for ever: it is confirmed or it fails, by its callback or by the  *)
(* sweeper once it has expired, whatever overlapping requests do, and the   *)
(* order can be paid another way (Payment.go:20-27). *)
QRSettles ==
    [](faults = 0) => \A r \in Records : status[r] \in Active ~> status[r] \notin Active
=============================================================================
