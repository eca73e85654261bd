------------------------------ MODULE PaymentProofs ------------------------------
(***************************************************************************)
(* Safety of PaymentService for any number of requests, rows, orders and   *)
(* faults.                                                                 *)
(*                                                                         *)
(* Two invariants: PayInv holds however requests overlap and says what a   *)
(* handler knows of the row it is about to save; SerialInv adds what it    *)
(* knows of the stored status when requests take turns. *)
(***************************************************************************)
EXTENDS Payment, FiniteSetTheorems, TLAPS

(* Where a request can stand. *)
Steps == {"idle", "recheck", "generate", "create", "save_awaiting", "verify",
          "save_confirmed", "save_failed", "sweep", "save_refunded"}

(* Types of what requests keep to themselves. *)
LocalType ==
    /\ pc \in [Handlers -> Steps]
    /\ rec \in [Handlers -> Records \cup {None}]
    /\ mem \in [Handlers -> Statuses]
    /\ ord \in [Handlers -> Orders \cup {None}]
    /\ stale \in [Handlers -> SUBSET Records]

(* Types of the stored rows. *)
RowType ==
    /\ overlap \in Overlaps
    /\ status \in [Records -> Statuses]
    /\ orderOf \in [Records -> Orders \cup {None}]
    /\ fonepay \subseteq Records /\ expired \subseteq fonepay /\ verified \subseteq fonepay
    /\ orderStatus \in [Orders -> OrderFSM.states]
    /\ \A r \in Records : Exists(r) => orderOf[r] \in Orders
    /\ \A r \in fonepay : Exists(r)
    /\ faults \in 0..MaxFaults

(* What a handler knows of its row, whatever others do. *)
HandlerInv(h) ==
    /\ pc[h] = "idle" => stale[h] = {}
    /\ pc[h] \in {"recheck", "generate", "create"} => ord[h] \in Orders
    /\ pc[h] \in {"save_awaiting", "verify"} => rec[h] \in fonepay /\ mem[h] = "awaiting_confirm"
    /\ pc[h] = "save_confirmed" => rec[h] \in verified /\ mem[h] = "confirmed"
    /\ pc[h] = "save_failed" => rec[h] \in fonepay /\ mem[h] = "failed"
    /\ pc[h] = "save_refunded" =>
         /\ rec[h] \in Records /\ Exists(rec[h]) /\ mem[h] = "refunded"
         /\ rec[h] \in fonepay => rec[h] \in verified
    /\ stale[h] \subseteq fonepay

(* A goroutine that serves an order was started by a verified payment.      *)
AdvancesPaid ==
    /\ advances \subseteq Orders \X {"load", "save"}
    /\ \A a \in advances : \E r \in PaymentsOf(a[1]) : r \in verified

(* The invariant that holds however requests overlap. *)
PayInv ==
    /\ RowType /\ LocalType
    /\ \A h \in Handlers : HandlerInv(h)
    /\ AdvancesPaid
    /\ ConfirmedOnlyIfVerified

-----------------------------------------------------------------------------
(* A lookup with one possible answer returns it. *)
LEMMA LookupTarget ==
    ASSUME NEW trans, NEW s, NEW e, NEW u, <<s, e, u>> \in trans,
           \A t \in trans : t[1] = s /\ t[2] = e => t[3] = u
    PROVE  Lookup(trans, s, e)[3] = u
<1>1. \E t \in trans : t[1] = s /\ t[2] = e
  <2>1. <<s, e, u>>[1] = s /\ <<s, e, u>>[2] = e
    OBVIOUS
  <2> QED
    BY <2>1
<1>2. Lookup(trans, s, e) \in trans /\ Lookup(trans, s, e)[1] = s /\ Lookup(trans, s, e)[2] = e
  BY <1>1 DEF Lookup
<1> QED
  BY <1>2

(* The transitions of PaymentFSM the service fires (FSM.go:1657-1736).      *)
LEMMA PaymentMoves ==
    /\ Target(PaymentFSM, "pending_qr", "fail") = "failed"
    /\ Target(PaymentFSM, "pending_qr", "qr_scanned") = "awaiting_confirm"
    /\ Target(PaymentFSM, "awaiting_confirm", "payment_received") = "confirmed"
    /\ Target(PaymentFSM, "awaiting_confirm", "fail") = "failed"
    /\ Target(PaymentFSM, "confirmed", "refund") = "refunded"
    /\ \A s : Can(PaymentFSM, s, "refund") => s = "confirmed"
    /\ \A s \in {"pending_qr", "awaiting_confirm"} : \E t \in PaymentFSM.trans : t[1] = s /\ t[3] = "failed"
    /\ \E t \in PaymentFSM.trans : t[1] = "pending_qr" /\ t[3] = "awaiting_confirm"
    /\ \E t \in PaymentFSM.trans : t[1] = "awaiting_confirm" /\ t[3] = "confirmed"
    /\ \E t \in PaymentFSM.trans : t[1] = "confirmed" /\ t[3] = "refunded"
    /\ PaymentFSM.states = {"pending_qr", "awaiting_confirm", "confirmed", "failed", "refunded"}
<1> DEFINE T == {<<"pending_qr", "qr_scanned", "awaiting_confirm">>, <<"awaiting_confirm", "payment_received", "confirmed">>,
                 <<"pending_qr", "expire", "failed">>, <<"confirmed", "refund", "refunded">>,
                 <<"pending_qr", "fail", "failed">>, <<"awaiting_confirm", "fail", "failed">>}
<1>1. PaymentFSM.trans = T /\ PaymentFSM.states = {"pending_qr", "awaiting_confirm", "confirmed", "failed", "refunded"}
  BY DEF PaymentFSM, Definition, FromEach
<1>2. Lookup(T, "pending_qr", "fail")[3] = "failed"
  <2>1. <<"pending_qr", "fail", "failed">> \in T
    OBVIOUS
  <2>2. \A t \in T : t[1] = "pending_qr" /\ t[2] = "fail" => t[3] = "failed"
    OBVIOUS
  <2> HIDE DEF T
  <2> QED
    BY <2>1, <2>2, LookupTarget
<1>3. Lookup(T, "pending_qr", "qr_scanned")[3] = "awaiting_confirm"
  <2>1. <<"pending_qr", "qr_scanned", "awaiting_confirm">> \in T
    OBVIOUS
  <2>2. \A t \in T : t[1] = "pending_qr" /\ t[2] = "qr_scanned" => t[3] = "awaiting_confirm"
    OBVIOUS
  <2> HIDE DEF T
  <2> QED
    BY <2>1, <2>2, LookupTarget
<1>4. Lookup(T, "awaiting_confirm", "payment_received")[3] = "confirmed"
  <2>1. <<"awaiting_confirm", "payment_received", "confirmed">> \in T
    OBVIOUS
  <2>2. \A t \in T : t[1] = "awaiting_confirm" /\ t[2] = "payment_received" => t[3] = "confirmed"
    OBVIOUS
  <2> HIDE DEF T
  <2> QED
    BY <2>1, <2>2, LookupTarget
<1>5. Lookup(T, "awaiting_confirm", "fail")[3] = "failed"
  <2>1. <<"awaiting_confirm", "fail", "failed">> \in T
    OBVIOUS
  <2>2. \A t \in T : t[1] = "awaiting_confirm" /\ t[2] = "fail" => t[3] = "failed"
    OBVIOUS
  <2> HIDE DEF T
  <2> QED
    BY <2>1, <2>2, LookupTarget
<1>6. Lookup(T, "confirmed", "refund")[3] = "refunded"
  <2>1. <<"confirmed", "refund", "refunded">> \in T
    OBVIOUS
  <2>2. \A t \in T : t[1] = "confirmed" /\ t[2] = "refund" => t[3] = "refunded"
    OBVIOUS
  <2> HIDE DEF T
  <2> QED
    BY <2>1, <2>2, LookupTarget
<1>7. \A s : Can(PaymentFSM, s, "refund") => s = "confirmed"
  BY <1>1 DEF Can, CanTransition
<1>8. /\ \A s \in {"pending_qr", "awaiting_confirm"} : \E t \in T : t[1] = s /\ t[3] = "failed"
      /\ \E t \in T : t[1] = "pending_qr" /\ t[3] = "awaiting_confirm"
      /\ \E t \in T : t[1] = "awaiting_confirm" /\ t[3] = "confirmed"
      /\ \E t \in T : t[1] = "confirmed" /\ t[3] = "refunded"
  OBVIOUS
<1> QED
  BY <1>1, <1>2, <1>3, <1>4, <1>5, <1>6, <1>7, <1>8 DEF Target

(* The invariant holds initially. *)
LEMMA PayInit == Init => PayInv
<1> SUFFICES ASSUME Init PROVE PayInv
  OBVIOUS
<1>1. RowType
  <2>1. {"preparing", "ready"} \subseteq OrderFSM.states
    BY DEF OrderFSM, Definition
  <2> QED
    BY <2>1, PaymentAssumption DEF Init, RowType, Exists, Statuses
<1>2. LocalType
  BY DEF Init, LocalType, Steps, Statuses
<1>3. (\A h \in Handlers : HandlerInv(h)) /\ AdvancesPaid /\ ConfirmedOnlyIfVerified
  BY DEF Init, HandlerInv, AdvancesPaid, ConfirmedOnlyIfVerified
<1> QED
  BY <1>1, <1>2, <1>3 DEF PayInv

-----------------------------------------------------------------------------
(* A step leaves the copies of the other handlers alone ... *)
Others(h) ==
    \A g \in Handlers : g # h =>
        /\ pc'[g] = pc[g] /\ rec'[g] = rec[g] /\ mem'[g] = mem[g]
        /\ ord'[g] = ord[g] /\ stale'[g] = stale[g]

(* ... and rows stay, with their order and their method. *)
Kept ==
    /\ fonepay \subseteq fonepay' /\ verified \subseteq verified'
    /\ \A r \in Records :
         Exists(r) => Exists(r)' /\ orderOf'[r] = orderOf[r] /\ (r \in fonepay' => r \in fonepay)

(* A step of one request keeps the invariant if rows only move forward *)
(* and what it knows is kept. *)
LEMMA HandlerStep ==
    ASSUME PayInv, NEW h \in Handlers, RowType', LocalType', Others(h), Kept, HandlerInv(h)',
           ConfirmedOnlyIfVerified',
           \A a \in advances' : \/ a \in advances
                               \/ /\ a \in Orders \X {"load", "save"}
                                  /\ \E r \in Records : Exists(r)' /\ orderOf'[r] = a[1] /\ r \in verified'
    PROVE  PayInv'
<1>1. ASSUME NEW g \in Handlers, g # h PROVE HandlerInv(g)'
  <2>1. HandlerInv(g) /\ rec[g] \in Records \cup {None} /\ fonepay \subseteq Records
    BY DEF PayInv, LocalType, RowType
  <2>2. /\ pc'[g] = pc[g] /\ rec'[g] = rec[g] /\ mem'[g] = mem[g]
        /\ ord'[g] = ord[g] /\ stale'[g] = stale[g]
    BY <1>1 DEF Others
  <2> QED
    BY <2>1, <2>2 DEF HandlerInv, Kept
<1>2. AdvancesPaid'
  <2>1. ASSUME NEW a \in advances
        PROVE  a \in Orders \X {"load", "save"} /\ \E r \in PaymentsOf(a[1])' : r \in verified'
    BY DEF PayInv, AdvancesPaid, PaymentsOf, Kept
  <2>2. ASSUME NEW a \in advances'
        PROVE  a \in Orders \X {"load", "save"} /\ \E r \in PaymentsOf(a[1])' : r \in verified'
    BY <2>1 DEF PaymentsOf
  <2> QED
    BY <2>2 DEF AdvancesPaid
<1> QED
  BY <1>1, <1>2 DEF PayInv

(* A step that writes no row keeps the invariant. *)
LEMMA LocalStep ==
    ASSUME PayInv, NEW h \in Handlers, UNCHANGED <<overlap, db, verified, orderStatus, advances>>,
           faults' \in 0..MaxFaults, LocalType', Others(h), HandlerInv(h)'
    PROVE  PayInv'
<1>1. RowType' /\ Kept /\ ConfirmedOnlyIfVerified'
  BY DEF PayInv, RowType, Kept, ConfirmedOnlyIfVerified, db, Exists
<1> QED
  BY <1>1, HandlerStep

(* A request that returns leaves the others alone. *)
LEMMA DoneShape ==
    ASSUME LocalType, NEW h \in Handlers, Done(h)
    PROVE  /\ LocalType' /\ Others(h) /\ HandlerInv(h)'
           /\ pc'[h] = "idle" /\ stale'[h] = {}
<1>1. /\ pc' = [pc EXCEPT ![h] = "idle"] /\ rec' = [rec EXCEPT ![h] = None] /\ mem' = [mem EXCEPT ![h] = "absent"]
      /\ ord' = [ord EXCEPT ![h] = None] /\ stale' = [stale EXCEPT ![h] = {}]
  BY DEF Done
<1>2. LocalType'
  BY <1>1 DEF LocalType, Steps, Statuses
<1>3. pc'[h] = "idle" /\ stale'[h] = {} /\ Others(h)
  BY <1>1 DEF LocalType, Others
<1> QED
  BY <1>2, <1>3 DEF HandlerInv

(* Steps that only change the copies of the handler. *)
LEMMA QuietSteps ==
    ASSUME PayInv, NEW h \in Handlers, UNCHANGED overlap,
           \/ RegenerateCheck(h) \/ GenerateQR(h) \/ CreateBounded(h) \/ SweepSelect(h) \/ SweepNext(h) \/ Fault(h)
           \/ \E o \in Orders : InitiateQR(h, o)
           \/ \E r \in Records : RegenerateLoad(h, r) \/ CallbackLoad(h, r) \/ RefundLoad(h, r)
    PROVE  PayInv'
<1>1. LocalType /\ HandlerInv(h) /\ RowType
  BY DEF PayInv
<1>2. /\ UNCHANGED <<overlap, db, verified, orderStatus, advances>>
      /\ faults' \in 0..MaxFaults
  BY <1>1, PaymentAssumption
  DEF RowType, RegenerateCheck, GenerateQR, CreateBounded, SweepSelect, SweepNext, Fault, InitiateQR,
      RegenerateLoad, CallbackLoad, RefundLoad
<1>3. CASE Done(h)
  BY <1>1, <1>2, <1>3, DoneShape, LocalStep
<1>4. ASSUME RegenerateCheck(h) \/ GenerateQR(h) \/ CreateBounded(h) \/ Fault(h), ~Done(h)
      PROVE  LocalType' /\ Others(h) /\ HandlerInv(h)'
  <2>1. \/ /\ pc' = [pc EXCEPT ![h] = "generate"] /\ pc[h] = "recheck" /\ UNCHANGED locals
        \/ /\ pc' = [pc EXCEPT ![h] = "create"] /\ pc[h] = "generate" /\ UNCHANGED locals
        \/ /\ pc' = [pc EXCEPT ![h] = "sweep"] /\ UNCHANGED locals
    BY <1>4 DEF RegenerateCheck, GenerateQR, CreateBounded, Fault, Goto
  <2> QED
    BY <1>1, <1>2, <2>1 DEF LocalType, HandlerInv, Others, locals, Steps, db
<1>5. ASSUME NEW o \in Orders, InitiateQR(h, o)
      PROVE  LocalType' /\ Others(h) /\ HandlerInv(h)'
  BY <1>1, <1>2, <1>5 DEF InitiateQR, MayStart, Goto, LocalType, HandlerInv, Others, Steps, db
<1>6. ASSUME NEW r \in Records, RegenerateLoad(h, r)
      PROVE  LocalType' /\ Others(h) /\ HandlerInv(h)'
  <2>1. orderOf[r] \in Orders
    BY <1>1, <1>6 DEF RegenerateLoad, RowType
  <2> QED
    BY <1>1, <1>2, <1>6, <2>1 DEF RegenerateLoad, MayStart, Goto, LocalType, HandlerInv, Others, Steps, db
<1>7. ASSUME NEW r \in Records, CallbackLoad(h, r)
      PROVE  LocalType' /\ Others(h) /\ HandlerInv(h)'
  <2>1. /\ r \in fonepay /\ pc[h] = "idle" /\ rec' = [rec EXCEPT ![h] = r] /\ ord' = ord /\ stale' = stale
        /\ \/ mem' = [mem EXCEPT ![h] = "failed"] /\ pc' = [pc EXCEPT ![h] = "save_failed"]
           \/ mem' = [mem EXCEPT ![h] = "awaiting_confirm"] /\ pc' = [pc EXCEPT ![h] = "save_awaiting"]
    BY <1>7, PaymentMoves DEF CallbackLoad, MayStart, Goto
  <2> QED
    BY <1>1, <1>2, <2>1, PaymentMoves DEF LocalType, HandlerInv, Others, Steps, Statuses, db
<1>8. ASSUME NEW r \in Records, RefundLoad(h, r)
      PROVE  LocalType' /\ Others(h) /\ HandlerInv(h)'
  <2>1. /\ Exists(r) /\ status[r] = "confirmed" /\ pc[h] = "idle" /\ rec' = [rec EXCEPT ![h] = r]
        /\ ord' = ord /\ stale' = stale
        /\ mem' = [mem EXCEPT ![h] = "refunded"] /\ pc' = [pc EXCEPT ![h] = "save_refunded"]
    <3>1. /\ Exists(r) /\ Can(PaymentFSM, status[r], "refund") /\ pc[h] = "idle" /\ rec' = [rec EXCEPT ![h] = r]
          /\ ord' = ord /\ stale' = stale /\ pc' = [pc EXCEPT ![h] = "save_refunded"]
          /\ mem' = [mem EXCEPT ![h] = Target(PaymentFSM, status[r], "refund")]
      BY <1>8 DEF RefundLoad, MayStart, Goto
    <3>2. status[r] = "confirmed"
      BY ONLY <3>1, PaymentMoves
    <3>3. mem' = [mem EXCEPT ![h] = "refunded"]
      BY ONLY <3>1, <3>2, PaymentMoves
    <3> QED
      BY ONLY <3>1, <3>2, <3>3
  <2>2. r \in fonepay => r \in verified
    BY <2>1 DEF PayInv, ConfirmedOnlyIfVerified
  <2> QED
    BY <1>1, <1>2, <2>1, <2>2, PaymentMoves DEF LocalType, HandlerInv, Others, Steps, Statuses, db, Exists
<1>9. ASSUME SweepSelect(h)
      PROVE  LocalType' /\ Others(h) /\ HandlerInv(h)'
  <2>1. StaleRows \subseteq fonepay /\ StaleRows \subseteq Records
    BY <1>1 DEF StaleRows, RowType
  <2> QED
    BY <1>1, <1>2, <1>9, <2>1 DEF SweepSelect, MayStart, Goto, LocalType, HandlerInv, Others, Steps, db
<1>10. ASSUME SweepNext(h)
       PROVE  LocalType' /\ Others(h) /\ HandlerInv(h)'
  <2>1. PICK r \in stale[h] : /\ rec' = [rec EXCEPT ![h] = r] /\ mem' = [mem EXCEPT ![h] = "failed"]
                              /\ stale' = [stale EXCEPT ![h] = stale[h] \ {r}]
    <3>1. PICK r \in stale[h] : /\ rec' = [rec EXCEPT ![h] = r]
                                /\ mem' = [mem EXCEPT ![h] = Target(PaymentFSM, "pending_qr", "fail")]
                                /\ stale' = [stale EXCEPT ![h] = stale[h] \ {r}]
      BY <1>10 DEF SweepNext
    <3>2. mem' = [mem EXCEPT ![h] = "failed"]
      BY ONLY <3>1, PaymentMoves
    <3> QED
      BY <3>1, <3>2
  <2>2. r \in fonepay /\ r \in Records /\ pc' = [pc EXCEPT ![h] = "save_failed"] /\ ord' = ord
    BY <1>1, <1>10 DEF SweepNext, Goto, HandlerInv, RowType
  <2> QED
    BY <1>1, <1>2, <2>1, <2>2, PaymentMoves DEF LocalType, HandlerInv, Others, Steps, Statuses, db
<1> QED
  BY <1>2, <1>3, <1>4, <1>5, <1>6, <1>7, <1>8, <1>9, <1>10, LocalStep

(* The UPDATE of a row by its primary key. *)
LEMMA RowSave ==
    ASSUME PayInv, NEW h \in Handlers, Save(h), rec[h] \in Records, Exists(rec[h]),
           mem[h] \in PaymentFSM.states, mem[h] \in {"confirmed", "refunded"} /\ rec[h] \in fonepay => rec[h] \in verified,
           UNCHANGED <<overlap, orderOf, fonepay, expired, verified, orderStatus, faults>>
    PROVE  RowType' /\ Kept /\ ConfirmedOnlyIfVerified'
<1>1. /\ status' = [status EXCEPT ![rec[h]] = mem[h]] /\ RowType
      /\ mem[h] # "absent" /\ mem[h] \in Statuses
  BY PaymentMoves DEF Save, PayInv, Statuses
<1>2. \A r \in Records : Exists(r) => Exists(r)'
  BY <1>1 DEF RowType, Exists
<1>3. \A r \in Records : Exists(r)' => Exists(r)
  BY <1>1 DEF RowType, Exists
<1>4. RowType'
  BY <1>1, <1>2, <1>3 DEF RowType
<1>5. ConfirmedOnlyIfVerified'
  BY <1>1 DEF RowType, ConfirmedOnlyIfVerified, PayInv
<1> QED
  BY <1>1, <1>2, <1>4, <1>5 DEF Kept

(* The handlers' writes and the gateway's answer. *)
LEMMA SaveSteps ==
    ASSUME PayInv, NEW h \in Handlers, UNCHANGED overlap,
           SaveAwaiting(h) \/ SaveConfirmed(h) \/ SaveFailed(h) \/ SaveRefunded(h)
    PROVE  PayInv'
<1>1. LocalType /\ HandlerInv(h) /\ RowType
  BY DEF PayInv
<1>2. Save(h) /\ UNCHANGED <<orderOf, fonepay, expired, verified, orderStatus, faults>>
  BY DEF SaveAwaiting, SaveConfirmed, SaveFailed, SaveRefunded
<1>3. /\ rec[h] \in Records /\ Exists(rec[h]) /\ mem[h] \in PaymentFSM.states
      /\ mem[h] \in {"confirmed", "refunded"} /\ rec[h] \in fonepay => rec[h] \in verified
  BY <1>1, PaymentMoves DEF HandlerInv, RowType, SaveAwaiting, SaveConfirmed, SaveFailed, SaveRefunded
<1>4. RowType' /\ Kept /\ ConfirmedOnlyIfVerified'
  BY <1>2, <1>3, RowSave
<1>5. LocalType' /\ Others(h) /\ HandlerInv(h)'
  <2>1. CASE Done(h)
    BY <1>1, <2>1, DoneShape
  <2>2. CASE ~Done(h)
    <3>1. /\ pc[h] \in {"save_awaiting", "save_failed"} /\ UNCHANGED locals
          /\ \/ pc' = [pc EXCEPT ![h] = "verify"] /\ pc[h] = "save_awaiting"
             \/ pc' = [pc EXCEPT ![h] = "sweep"]
      BY <2>2 DEF SaveAwaiting, SaveConfirmed, SaveFailed, SaveRefunded, Goto
    <3> QED
      BY <1>1, <1>2, <3>1 DEF LocalType, HandlerInv, Others, locals, Steps
  <2> QED
    BY <2>1, <2>2
<1>6. ASSUME NEW a \in advances', a \notin advances
      PROVE  a \in Orders \X {"load", "save"} /\ \E r \in Records : Exists(r)' /\ orderOf'[r] = a[1] /\ r \in verified'
  <2>1. SaveConfirmed(h) /\ a = <<orderOf[rec[h]], "load">>
    BY <1>6 DEF SaveAwaiting, SaveConfirmed, SaveFailed, SaveRefunded
  <2>2. rec[h] \in verified /\ orderOf[rec[h]] \in Orders /\ rec[h] \in Records
    BY <1>1, <1>3, <2>1 DEF SaveConfirmed, HandlerInv, RowType
  <2>3. PICK r \in Records : r = rec[h]
    BY <2>2
  <2>4. status'[r] # "absent" /\ orderOf'[r] = a[1] /\ r \in verified'
    BY <1>1, <1>2, <1>3, <2>1, <2>2, <2>3, PaymentMoves DEF Save, RowType
  <2> QED
    BY <2>1, <2>2, <2>4 DEF Exists
<1> QED
  BY <1>4, <1>5, <1>6, HandlerStep

(* The gateway's answer keeps the invariant: success marks the row *)
(* verified (Payment.go:437-463). *)
LEMMA VerifyStep ==
    ASSUME PayInv, NEW h \in Handlers, UNCHANGED overlap, VerifyPayment(h)
    PROVE  PayInv'
<1>1. LocalType /\ HandlerInv(h) /\ RowType /\ ConfirmedOnlyIfVerified
  BY DEF PayInv
<1>2. /\ rec[h] \in fonepay /\ mem[h] = "awaiting_confirm"
      /\ \/ /\ verified' = verified \cup {rec[h]} /\ mem' = [mem EXCEPT ![h] = "confirmed"]
            /\ pc' = [pc EXCEPT ![h] = "save_confirmed"]
         \/ /\ verified' = verified /\ mem' = [mem EXCEPT ![h] = "failed"]
            /\ pc' = [pc EXCEPT ![h] = "save_failed"]
      /\ UNCHANGED <<overlap, status, orderOf, fonepay, expired, orderStatus, rec, ord, stale, advances, faults>>
  BY <1>1, PaymentMoves DEF VerifyPayment, HandlerInv, Fire, Goto, db
<1>3. RowType' /\ Kept /\ ConfirmedOnlyIfVerified'
  BY <1>1, <1>2 DEF RowType, Kept, ConfirmedOnlyIfVerified, Exists
<1>4. LocalType' /\ Others(h) /\ HandlerInv(h)'
  BY <1>1, <1>2, PaymentMoves DEF LocalType, Others, HandlerInv, Steps, Statuses
<1> QED
  BY <1>2, <1>3, <1>4, HandlerStep

(* A new row is a QR or a confirmed cash or card payment. *)
LEMMA RowInsert ==
    ASSUME PayInv, NEW r \in Records, ~Exists(r), NEW o \in Orders, NEW s \in {"pending_qr", "confirmed"},
           status' = [status EXCEPT ![r] = s], orderOf' = [orderOf EXCEPT ![r] = o],
           fonepay' = fonepay \cup (IF s = "pending_qr" THEN {r} ELSE {}),
           UNCHANGED <<overlap, expired, verified, orderStatus, faults>>
    PROVE  RowType' /\ Kept /\ ConfirmedOnlyIfVerified'
<1>1. RowType /\ ConfirmedOnlyIfVerified /\ s \in Statuses /\ s # "absent"
  BY PaymentMoves DEF PayInv, Statuses
<1>2. r \notin fonepay
  BY <1>1 DEF RowType
<1>3. Kept
  BY <1>1, <1>2 DEF Kept, RowType, Exists
<1>4. RowType'
  BY <1>1, <1>2 DEF RowType, Exists
<1>5. ConfirmedOnlyIfVerified'
  BY <1>1, <1>2 DEF RowType, ConfirmedOnlyIfVerified
<1> QED
  BY <1>3, <1>4, <1>5

(* Inserting a row keeps the invariant. *)
LEMMA InsertSteps ==
    ASSUME PayInv, NEW h \in Handlers, UNCHANGED overlap,
           CreateQR(h) \/ \E o \in Orders : RecordCashOrCard(h, o)
    PROVE  PayInv'
<1>1. LocalType /\ HandlerInv(h) /\ RowType /\ ConfirmedOnlyIfVerified
  BY DEF PayInv
<1>2. CASE CreateQR(h)
  <2>1. PICK r \in Records : /\ ~Exists(r) /\ status' = [status EXCEPT ![r] = "pending_qr"]
                             /\ orderOf' = [orderOf EXCEPT ![r] = ord[h]] /\ fonepay' = fonepay \cup {r}
    BY <1>2 DEF CreateQR
  <2>2. ord[h] \in Orders /\ UNCHANGED <<expired, verified, orderStatus, advances, faults>>
    BY <1>1, <1>2 DEF CreateQR, HandlerInv
  <2>3. RowType' /\ Kept /\ ConfirmedOnlyIfVerified'
    BY <2>1, <2>2, RowInsert
  <2>4. LocalType' /\ Others(h) /\ HandlerInv(h)'
    BY <1>1, <1>2, DoneShape DEF CreateQR
  <2> QED
    BY <2>2, <2>3, <2>4, HandlerStep
<1>3. ASSUME NEW o \in Orders, RecordCashOrCard(h, o)
      PROVE  PayInv'
  <2>1. PICK r \in Records : /\ ~Exists(r) /\ status' = [status EXCEPT ![r] = "confirmed"]
                             /\ orderOf' = [orderOf EXCEPT ![r] = o]
    BY <1>3 DEF RecordCashOrCard
  <2>2. UNCHANGED <<fonepay, expired, verified, orderStatus, pc, rec, mem, ord, stale, advances, faults>>
    BY <1>3 DEF RecordCashOrCard, locals
  <2>3. fonepay' = fonepay \cup (IF "confirmed" = "pending_qr" THEN {r} ELSE {})
    BY <2>2
  <2>4. RowType' /\ Kept /\ ConfirmedOnlyIfVerified'
    BY <2>1, <2>2, <2>3, RowInsert
  <2>5. LocalType' /\ Others(h)
    BY <1>1, <2>2 DEF LocalType, Others
  <2>6. pc[h] = "idle" /\ HandlerInv(h)'
    BY <1>1, <1>3, <2>2 DEF HandlerInv, RecordCashOrCard, MayStart
  <2> QED
    BY <2>2, <2>4, <2>5, <2>6, HandlerStep
<1> QED
  BY <1>2, <1>3

(* The goroutines that serve orders, time, and answers without effect. *)
LEMMA OtherSteps ==
    ASSUME PayInv, \/ Advance
                   \/ \E r \in Records : Expire(r)
                   \/ UNCHANGED vars
    PROVE  PayInv'
<1>1. RowType /\ LocalType /\ AdvancesPaid /\ ConfirmedOnlyIfVerified /\ \A h \in Handlers : HandlerInv(h)
  BY DEF PayInv
<1>2. UNCHANGED <<overlap, status, orderOf, fonepay, verified, pc, rec, mem, ord, stale, faults>>
  BY DEF Advance, AdvanceLoad, AdvanceSave, Expire, vars, db, locals
<1>3. ASSUME NEW a \in advances' PROVE a[1] \in Orders /\ a \in Orders \X {"load", "save"} /\ \E b \in advances : b[1] = a[1]
  <2>1. CASE a \in advances
    BY <1>1, <2>1 DEF AdvancesPaid
  <2>2. CASE a \notin advances
    <3>1. PICK o \in Orders : AdvanceLoad(o)
      BY <2>2, <1>3 DEF Advance, AdvanceSave, Expire, vars
    <3>2. a = <<o, "save">> /\ <<o, "load">> \in advances
      BY <3>1, <2>2, <1>3 DEF AdvanceLoad
    <3> QED
      BY <3>2
  <2> QED
    BY <2>1, <2>2
<1>4. orderStatus' \in [Orders -> OrderFSM.states] /\ expired' \subseteq fonepay
  <2>1. "served" \in OrderFSM.states
    BY DEF OrderFSM, Definition
  <2> QED
    BY <1>1, <2>1 DEF Advance, AdvanceLoad, AdvanceSave, Expire, vars, db, RowType
<1>5. RowType' /\ LocalType' /\ ConfirmedOnlyIfVerified'
  BY <1>1, <1>2, <1>4 DEF RowType, LocalType, ConfirmedOnlyIfVerified, Exists
<1>6. \A h \in Handlers : HandlerInv(h)'
  BY <1>1, <1>2 DEF HandlerInv, Exists
<1>7. AdvancesPaid'
  <2>1. ASSUME NEW a \in advances'
        PROVE  a \in Orders \X {"load", "save"} /\ \E r \in PaymentsOf(a[1])' : r \in verified'
    <3>1. a \in Orders \X {"load", "save"} /\ \E b \in advances : b[1] = a[1]
      BY <1>3, <2>1
    <3> QED
      BY <1>1, <1>2, <3>1 DEF AdvancesPaid, PaymentsOf, Exists
  <2> QED
    BY <2>1 DEF AdvancesPaid
<1> QED
  BY <1>5, <1>6, <1>7 DEF PayInv

(* Every step keeps the invariant. *)
LEMMA PayStep == PayInv /\ [Next]_vars => PayInv'
<1> SUFFICES ASSUME PayInv, [Next]_vars PROVE PayInv'
  OBVIOUS
<1>1. ASSUME NEW h \in Handlers, Continue(h) PROVE PayInv'
  BY <1>1, QuietSteps, SaveSteps, VerifyStep, InsertSteps DEF Continue
<1>2. ASSUME NEW h \in Handlers, Request(h) PROVE PayInv'
  BY <1>2, QuietSteps, InsertSteps DEF Request
<1>3. ASSUME NEW h \in Handlers, SweepSelect(h) \/ Fault(h) PROVE PayInv'
  BY <1>3, QuietSteps DEF SweepSelect, Fault
<1>4. ASSUME NEW h \in Handlers, AnswerOnly(h) PROVE PayInv'
  BY <1>4, OtherSteps DEF AnswerOnly
<1> QED
  BY <1>1, <1>2, <1>3, <1>4, OtherSteps DEF Next

(* A Fonepay row is confirmed or refunded only if the gateway has verified  *)
(* that payment, however requests, sweeps and faults interleave. *)
THEOREM PaymentsVerified == Spec => []ConfirmedOnlyIfVerified
<1>1. PayInv => ConfirmedOnlyIfVerified
  BY DEF PayInv
<1> QED
  BY PayInit, PayStep, <1>1, PTL DEF Spec

(* An order is served by the service only when a payment of that order is   *)
(* verified. *)
THEOREM OrdersPaidBeforeServed == Spec => ServedOnlyIfPaid
<1> DEFINE Paid == \A o \in Orders : orderStatus[o] # "served" /\ orderStatus'[o] = "served"
                                       => \E r \in PaymentsOf(o) : r \in verified
<1>1. ASSUME PayInv, [Next]_vars PROVE [Paid]_vars
  <2>1. CASE UNCHANGED orderStatus
    BY <2>1
  <2>2. ASSUME NEW o \in Orders, AdvanceSave(o)
        PROVE  Paid
    <3>1. \E r \in PaymentsOf(o) : r \in verified
      BY <1>1, <2>2 DEF PayInv, AdvancesPaid, AdvanceSave
    <3>2. \A p \in Orders : p # o => orderStatus'[p] = orderStatus[p]
      BY <1>1, <2>2 DEF PayInv, RowType, AdvanceSave
    <3> QED
      BY <3>1, <3>2
  <2>3. UNCHANGED orderStatus \/ \E o \in Orders : AdvanceSave(o)
    BY <1>1, ZenonT(60)
            DEF Next, Continue, Request, Advance, AdvanceLoad, Expire, SweepSelect, Fault, AnswerOnly, vars,
                RegenerateCheck, GenerateQR, CreateQR, CreateBounded, SaveAwaiting, VerifyPayment, SaveConfirmed,
                SaveFailed, SweepNext, SaveRefunded, InitiateQR, RecordCashOrCard, RegenerateLoad, CallbackLoad, RefundLoad
  <2> QED
    BY <2>1, <2>2, <2>3
<1> QED
  BY PayInit, PayStep, <1>1, PTL DEF Spec, ServedOnlyIfPaid

-----------------------------------------------------------------------------
(* When requests take turns, what a handler knows of the stored status.    *)
SerialHandler(h) ==
    /\ pc[h] \in {"generate", "create"} => QRsOf(ord[h]) = {}
    /\ pc[h] = "save_awaiting" => status[rec[h]] = "pending_qr"
    /\ pc[h] \in {"verify", "save_confirmed"} => status[rec[h]] = "awaiting_confirm"
    /\ pc[h] = "save_failed" => status[rec[h]] \in Active /\ rec[h] \notin stale[h]
    /\ pc[h] = "save_refunded" => status[rec[h]] = "confirmed"
    /\ pc[h] \notin {"sweep", "save_failed"} => stale[h] = {}
    /\ \A r \in stale[h] : status[r] = "pending_qr"

(* At most one request is under way. *)
OneBusy == \A g, h \in Handlers : pc[g] # "idle" /\ pc[h] # "idle" => g = h

(* At most one active QR per order. *)
OneQR == \A o \in Orders : \A q, r \in QRsOf(o) : q = r

(* The invariant of requests that take turns. *)
SerialInv == ~overlap => OneBusy /\ OneQR /\ \A h \in Handlers : SerialHandler(h)

(* The serial invariant holds initially. *)
LEMMA SerialInit == Init => SerialInv
BY DEF Init, SerialInv, OneBusy, OneQR, SerialHandler, QRsOf, PaymentsOf, Exists

(* A step of the only request keeps the serial invariant if it keeps the *)
(* QRs and what it knows. *)
LEMMA SerialStep ==
    ASSUME PayInv, SerialInv, ~overlap, NEW h \in Handlers, Others(h),
           \A g \in Handlers : g # h => pc[g] = "idle",
           OneQR', SerialHandler(h)'
    PROVE  SerialInv'
<1>1. ASSUME NEW g \in Handlers, g # h PROVE pc'[g] = "idle" /\ stale'[g] = {}
  BY <1>1 DEF PayInv, HandlerInv, Others
<1>2. OneBusy'
  BY <1>1 DEF OneBusy
<1>3. ASSUME NEW g \in Handlers, g # h PROVE SerialHandler(g)'
  BY <1>1, <1>3 DEF SerialHandler
<1> QED
  BY <1>2, <1>3 DEF SerialInv

(* A handler that returns leaves nothing to know. *)
LEMMA SerialDone ==
    ASSUME LocalType, NEW h \in Handlers, Done(h)
    PROVE  SerialHandler(h)'
BY DoneShape DEF SerialHandler

(* The handler that takes a step is the only one. *)
LEMMA Alone ==
    ASSUME SerialInv, ~overlap, NEW h \in Handlers,
           pc[h] # "idle" \/ MayStart(h)
    PROVE  \A g \in Handlers : g # h => pc[g] = "idle"
BY DEF SerialInv, OneBusy, MayStart

(* Steps that change no status keep the serial invariant. *)
LEMMA SerialQuiet ==
    ASSUME PayInv, SerialInv, ~overlap, NEW h \in Handlers, UNCHANGED overlap,
           \/ RegenerateCheck(h) \/ GenerateQR(h) \/ CreateBounded(h) \/ SweepSelect(h) \/ SweepNext(h) \/ Fault(h)
           \/ VerifyPayment(h)
           \/ \E o \in Orders : InitiateQR(h, o)
           \/ \E r \in Records : RegenerateLoad(h, r) \/ CallbackLoad(h, r) \/ RefundLoad(h, r)
    PROVE  SerialInv'
<1>1. LocalType /\ HandlerInv(h) /\ RowType /\ SerialHandler(h) /\ OneQR
  BY DEF PayInv, SerialInv
<1>2. UNCHANGED <<status, orderOf, fonepay, expired>>
  BY DEF RegenerateCheck, GenerateQR, CreateBounded, SweepSelect, SweepNext, Fault, InitiateQR, VerifyPayment,
         RegenerateLoad, CallbackLoad, RefundLoad, db
<1>3. OneQR' /\ \A o : QRsOf(o)' = QRsOf(o)
  BY <1>1, <1>2 DEF OneQR, QRsOf, PaymentsOf, Exists
<1>4. \A g \in Handlers : g # h => pc[g] = "idle"
  <2>1. pc[h] # "idle" \/ MayStart(h)
    BY DEF RegenerateCheck, GenerateQR, CreateBounded, SweepSelect, SweepNext, Fault, InitiateQR, VerifyPayment,
           RegenerateLoad, CallbackLoad, RefundLoad
  <2> QED
    BY <2>1, Alone
<1> SUFFICES Others(h) /\ SerialHandler(h)'
  BY <1>3, <1>4, SerialStep
<1>5. CASE Done(h)
  BY <1>1, <1>5, DoneShape, SerialDone
<1>6. ASSUME RegenerateCheck(h) \/ GenerateQR(h) \/ CreateBounded(h) \/ Fault(h), ~Done(h)
      PROVE  Others(h) /\ SerialHandler(h)'
  <2>1. /\ UNCHANGED <<rec, mem, ord, stale>>
        /\ \/ pc' = [pc EXCEPT ![h] = "generate"] /\ QRsOf(ord[h]) = {} /\ pc[h] = "recheck"
           \/ pc' = [pc EXCEPT ![h] = "create"] /\ pc[h] = "generate"
           \/ pc' = [pc EXCEPT ![h] = "sweep"]
    BY <1>6 DEF RegenerateCheck, GenerateQR, CreateBounded, Fault, Goto, QRBlocked, locals
  <2>2. Others(h)
    BY <1>1, <2>1 DEF LocalType, Others
  <2>3. QRsOf(ord[h])' = QRsOf(ord[h])
    BY <1>2, <2>1 DEF QRsOf, PaymentsOf, Exists
  <2> QED
    BY <1>1, <1>2, <2>1, <2>2, <2>3 DEF LocalType, SerialHandler
<1>7. ASSUME NEW o \in Orders, InitiateQR(h, o)
      PROVE  Others(h) /\ SerialHandler(h)'
  <2>1. /\ QRsOf(o) = {} /\ pc[h] = "idle" /\ ord' = [ord EXCEPT ![h] = o]
        /\ pc' = [pc EXCEPT ![h] = "generate"] /\ UNCHANGED <<rec, mem, stale>>
    BY <1>7 DEF InitiateQR, MayStart, Goto, QRBlocked
  <2>2. ord'[h] = o /\ QRsOf(ord[h])' = QRsOf(o)
    BY <1>1, <1>2, <2>1 DEF LocalType, QRsOf, PaymentsOf, Exists
  <2> QED
    BY <1>1, <1>2, <2>1, <2>2 DEF LocalType, Others, SerialHandler
<1>8. ASSUME NEW r \in Records, RegenerateLoad(h, r)
      PROVE  Others(h) /\ SerialHandler(h)'
  BY <1>1, <1>2, <1>8 DEF RegenerateLoad, MayStart, Goto, LocalType, Others, SerialHandler
<1>9. ASSUME NEW r \in Records, CallbackLoad(h, r)
      PROVE  Others(h) /\ SerialHandler(h)'
  <2>1. /\ status[r] = "pending_qr" /\ pc[h] = "idle" /\ rec' = [rec EXCEPT ![h] = r] /\ UNCHANGED <<ord, stale>>
        /\ \E m : mem' = [mem EXCEPT ![h] = m]
        /\ \E l \in {"save_failed", "save_awaiting"} : pc' = [pc EXCEPT ![h] = l]
    BY <1>9 DEF CallbackLoad, MayStart, Goto
  <2> QED
    BY <1>1, <1>2, <2>1 DEF LocalType, Others, SerialHandler, Active
<1>10. ASSUME NEW r \in Records, RefundLoad(h, r)
       PROVE  Others(h) /\ SerialHandler(h)'
  <2>1. /\ status[r] = "confirmed" /\ pc[h] = "idle" /\ rec' = [rec EXCEPT ![h] = r] /\ UNCHANGED <<ord, stale>>
        /\ \E m : mem' = [mem EXCEPT ![h] = m]
        /\ pc' = [pc EXCEPT ![h] = "save_refunded"]
    BY <1>10, PaymentMoves DEF RefundLoad, MayStart, Goto
  <2> QED
    BY <1>1, <1>2, <2>1 DEF LocalType, Others, SerialHandler
<1>11. ASSUME SweepSelect(h)
       PROVE  Others(h) /\ SerialHandler(h)'
  BY <1>1, <1>2, <1>11 DEF SweepSelect, StaleRows, MayStart, Goto, LocalType, Others, SerialHandler
<1>12. ASSUME SweepNext(h)
       PROVE  Others(h) /\ SerialHandler(h)'
  <2>1. PICK r \in stale[h] : /\ rec' = [rec EXCEPT ![h] = r] /\ stale' = [stale EXCEPT ![h] = stale[h] \ {r}]
                              /\ \E m : mem' = [mem EXCEPT ![h] = m]
    BY <1>12 DEF SweepNext
  <2>2. status[r] = "pending_qr" /\ pc' = [pc EXCEPT ![h] = "save_failed"] /\ ord' = ord
    BY <1>1, <1>12 DEF SweepNext, Goto, SerialHandler
  <2> QED
    BY <1>1, <1>2, <2>1, <2>2 DEF LocalType, Others, SerialHandler, Active
<1>13. ASSUME VerifyPayment(h)
       PROVE  Others(h) /\ SerialHandler(h)'
  <2>1. /\ pc[h] = "verify" /\ UNCHANGED <<rec, ord, stale>>
        /\ \E m : mem' = [mem EXCEPT ![h] = m]
        /\ \E l \in {"save_failed", "save_confirmed"} : pc' = [pc EXCEPT ![h] = l]
    BY <1>13 DEF VerifyPayment, Fire, Goto
  <2> QED
    BY <1>1, <1>2, <2>1 DEF LocalType, Others, SerialHandler, Active
<1> QED
  BY <1>5, <1>6, <1>7, <1>8, <1>9, <1>10, <1>11, <1>12, <1>13

(* A save that nobody has overtaken follows PaymentFSM and keeps the *)
(* serial invariant. *)
LEMMA SerialSaves ==
    ASSUME PayInv, SerialInv, ~overlap, NEW h \in Handlers, UNCHANGED overlap,
           SaveAwaiting(h) \/ SaveConfirmed(h) \/ SaveFailed(h) \/ SaveRefunded(h)
    PROVE  SerialInv' /\ \A r \in Records : FollowsFSM(r)
<1>1. LocalType /\ HandlerInv(h) /\ RowType /\ SerialHandler(h) /\ OneQR
  BY DEF PayInv, SerialInv
<1>2. Save(h) /\ UNCHANGED <<orderOf, fonepay, expired>>
  BY DEF SaveAwaiting, SaveConfirmed, SaveFailed, SaveRefunded
<1>3. rec[h] \in Records /\ Exists(rec[h])
  BY <1>1 DEF HandlerInv, RowType, SaveAwaiting, SaveConfirmed, SaveFailed, SaveRefunded
<1>4. PICK r \in Records : r = rec[h]
  BY <1>3
<1>5. status' = [status EXCEPT ![r] = mem[h]] /\ status \in [Records -> Statuses]
  BY <1>1, <1>2, <1>4 DEF Save, RowType
<1>6. \/ status[r] = "pending_qr" /\ mem[h] = "awaiting_confirm" /\ pc[h] = "save_awaiting"
      \/ status[r] = "awaiting_confirm" /\ mem[h] = "confirmed" /\ pc[h] = "save_confirmed"
      \/ status[r] \in Active /\ mem[h] = "failed" /\ pc[h] = "save_failed"
      \/ status[r] = "confirmed" /\ mem[h] = "refunded" /\ pc[h] = "save_refunded"
  BY <1>1, <1>4 DEF HandlerInv, SerialHandler, SaveAwaiting, SaveConfirmed, SaveFailed, SaveRefunded
<1>7. \A q \in Records : FollowsFSM(q)
  <2>1. \A q \in Records : q # r => status'[q] = status[q]
    BY <1>5
  <2>2. status'[r] = mem[h]
    BY <1>5
  <2>3. FollowsFSM(r)
    BY <1>6, <2>2, PaymentMoves DEF FollowsFSM, Active
  <2> QED
    BY <2>1, <2>3 DEF FollowsFSM
<1>8. OneQR'
  <2>1. \A q \in Records : status'[q] \in Active => status[q] \in Active
    BY <1>5, <1>6 DEF Active
  <2>2. \A o : QRsOf(o)' \subseteq QRsOf(o)
    BY <1>2, <2>1 DEF QRsOf, PaymentsOf, Exists, Active
  <2> QED
    BY <1>1, <2>2 DEF OneQR
<1>9. \A g \in Handlers : g # h => pc[g] = "idle"
  BY <1>6, Alone
<1>10. Others(h) /\ SerialHandler(h)'
  <2>1. CASE Done(h)
    BY <1>1, <2>1, DoneShape, SerialDone
  <2>2. CASE ~Done(h)
    <3>1. /\ UNCHANGED <<rec, mem, ord, stale>>
          /\ \/ pc' = [pc EXCEPT ![h] = "verify"] /\ pc[h] = "save_awaiting"
             \/ pc' = [pc EXCEPT ![h] = "sweep"] /\ pc[h] = "save_failed"
      BY <2>2 DEF SaveAwaiting, SaveConfirmed, SaveFailed, SaveRefunded, Goto, locals
    <3>2. \A q \in stale[h] : q # r => status'[q] = status[q]
      BY <1>1, <1>5 DEF LocalType
    <3> QED
      BY <1>1, <1>4, <1>5, <1>6, <3>1, <3>2 DEF LocalType, Others, SerialHandler
  <2> QED
    BY <2>1, <2>2
<1> QED
  BY <1>7, <1>8, <1>9, <1>10, SerialStep

(* An insert after the check of active QRs leaves at most one. *)
LEMMA SerialInserts ==
    ASSUME PayInv, SerialInv, ~overlap, NEW h \in Handlers, UNCHANGED overlap,
           CreateQR(h) \/ \E o \in Orders : RecordCashOrCard(h, o)
    PROVE  SerialInv' /\ \A r \in Records : FollowsFSM(r)
<1>1. LocalType /\ HandlerInv(h) /\ RowType /\ SerialHandler(h) /\ OneQR
  BY DEF PayInv, SerialInv
<1>2. PICK r \in Records, o \in Orders, s \in {"pending_qr", "confirmed"} :
        /\ ~Exists(r) /\ status' = [status EXCEPT ![r] = s] /\ orderOf' = [orderOf EXCEPT ![r] = o]
        /\ s = "pending_qr" => QRsOf(o) = {}
  BY <1>1 DEF CreateQR, RecordCashOrCard, HandlerInv, SerialHandler
<1>3. \A q \in Records : q # r => status'[q] = status[q] /\ orderOf'[q] = orderOf[q]
  BY <1>1, <1>2 DEF RowType
<1>4. status'[r] = s /\ orderOf'[r] = o
  BY <1>1, <1>2 DEF RowType
<1>5. \A q \in Records : FollowsFSM(q)
  BY <1>2, <1>3 DEF FollowsFSM
<1>6. OneQR'
  <2>1. ASSUME NEW p \in Orders, NEW q \in QRsOf(p)' PROVE q \in QRsOf(p) \/ (q = r /\ p = o /\ s = "pending_qr")
    BY <1>3, <1>4 DEF QRsOf, PaymentsOf, Exists, Active
  <2> QED
    BY <1>1, <1>2, <2>1 DEF OneQR
<1>7. \A g \in Handlers : g # h => pc[g] = "idle"
  BY Alone DEF CreateQR, RecordCashOrCard
<1>8. Others(h) /\ SerialHandler(h)'
  <2>1. CASE CreateQR(h)
    BY <1>1, <2>1, DoneShape, SerialDone DEF CreateQR
  <2>2. CASE \E p \in Orders : RecordCashOrCard(h, p)
    <3>1. UNCHANGED <<pc, rec, mem, ord, stale>> /\ pc[h] = "idle"
      BY <2>2 DEF RecordCashOrCard, MayStart, locals
    <3> QED
      BY <1>1, <3>1 DEF LocalType, Others, SerialHandler
  <2> QED
    BY <2>1, <2>2
<1> QED
  BY <1>5, <1>6, <1>7, <1>8, SerialStep

(* Every step keeps the serial invariant, and requests that take turns *)
(* follow PaymentFSM. *)
LEMMA SerialNext == PayInv /\ SerialInv /\ [Next]_vars => SerialInv' /\ (~overlap => \A r \in Records : FollowsFSM(r))
<1> SUFFICES ASSUME PayInv, SerialInv, [Next]_vars PROVE SerialInv' /\ (~overlap => \A r \in Records : FollowsFSM(r))
  OBVIOUS
<1>1. overlap' = overlap
  BY DEF Next, Continue, Request, Advance, SweepSelect, Fault, AnswerOnly, Expire, vars
<1>2. CASE overlap
  BY <1>1, <1>2 DEF SerialInv
<1>3. CASE ~overlap
  <2>1. ASSUME NEW h \in Handlers,
               SaveAwaiting(h) \/ SaveConfirmed(h) \/ SaveFailed(h) \/ SaveRefunded(h)
               \/ CreateQR(h) \/ \E o \in Orders : RecordCashOrCard(h, o)
        PROVE  SerialInv' /\ \A r \in Records : FollowsFSM(r)
    BY <1>1, <1>3, <2>1, SerialSaves, SerialInserts
  <2>2. ASSUME NEW h \in Handlers,
               \/ RegenerateCheck(h) \/ GenerateQR(h) \/ CreateBounded(h) \/ SweepSelect(h) \/ SweepNext(h) \/ Fault(h)
               \/ VerifyPayment(h)
               \/ \E o \in Orders : InitiateQR(h, o)
               \/ \E r \in Records : RegenerateLoad(h, r) \/ CallbackLoad(h, r) \/ RefundLoad(h, r)
        PROVE  SerialInv' /\ \A r \in Records : FollowsFSM(r)
    <3>1. UNCHANGED status
      BY <2>2 DEF RegenerateCheck, GenerateQR, CreateBounded, SweepSelect, SweepNext, Fault, InitiateQR, VerifyPayment,
                  RegenerateLoad, CallbackLoad, RefundLoad, db
    <3>2. SerialInv'
      BY <1>1, <1>3, <2>2, SerialQuiet
    <3> QED
      BY <3>1, <3>2 DEF FollowsFSM
  <2>3. ASSUME UNCHANGED <<overlap, status, orderOf, pc, rec, mem, ord, stale>>
        PROVE  SerialInv' /\ \A r \in Records : FollowsFSM(r)
    <3>1. \A o : QRsOf(o)' = QRsOf(o)
      BY <2>3 DEF QRsOf, PaymentsOf, Exists
    <3>2. \A h \in Handlers : QRsOf(ord[h])' = QRsOf(ord[h])
      BY <2>3 DEF QRsOf, PaymentsOf, Exists
    <3>3. \A h \in Handlers : SerialHandler(h) => SerialHandler(h)'
      BY <2>3, <3>2 DEF SerialHandler
    <3> QED
      BY <2>3, <3>1, <3>3 DEF SerialInv, OneBusy, OneQR, FollowsFSM
  <2>4. ASSUME Advance \/ (\E r \in Records : Expire(r)) \/ (\E h \in Handlers : AnswerOnly(h)) \/ UNCHANGED vars
        PROVE  UNCHANGED <<overlap, status, orderOf, pc, rec, mem, ord, stale>>
    BY <2>4 DEF Advance, AdvanceLoad, AdvanceSave, Expire, AnswerOnly, vars, db, locals
  <2> QED
    BY <2>1, <2>2, <2>3, <2>4 DEF Next, Continue, Request
<1> QED
  BY <1>2, <1>3

(* Types, and at most one active QR for each order when requests take turns. *)
THEOREM OneActiveQR == Spec => []PaymentSound
<1>1. PayInv /\ SerialInv => PaymentSound
  <2> SUFFICES ASSUME PayInv, SerialInv PROVE PaymentSound
    OBVIOUS
  <2>1. TypeOK
    BY DEF PayInv, RowType, LocalType, AdvancesPaid, TypeOK, Steps
  <2>2. ASSUME ~overlap, NEW o \in Orders PROVE Cardinality(QRsOf(o)) <= 1
    <3>1. CASE QRsOf(o) = {}
      BY <3>1, FS_EmptySet
    <3>2. CASE QRsOf(o) # {}
      <4>1. PICK r \in QRsOf(o) : QRsOf(o) = {r}
        BY <2>2, <3>2 DEF SerialInv, OneQR
      <4>2. Cardinality({r}) = 1
        BY FS_Singleton
      <4> QED
        BY <4>1, <4>2
    <3> QED
      BY <3>1, <3>2
  <2> QED
    BY <2>1, <2>2 DEF PaymentSound, SerialOneActiveQR
<1> QED
  BY PayInit, PayStep, SerialInit, SerialNext, <1>1, PTL DEF Spec

(* PaymentFSM governs the stored status when requests take turns, whatever  *)
(* crashes or fails in between. *)
THEOREM StoredStatusFollowsFSM == Spec => SerialStatusFollowsFSM
<1>1. PayInv /\ SerialInv /\ [Next]_vars => [~overlap => \A r \in Records : FollowsFSM(r)]_vars
  BY SerialNext
<1> QED
  BY PayInit, PayStep, SerialInit, SerialNext, <1>1, PTL DEF Spec, SerialStatusFollowsFSM
=============================================================================
