----------------------------- MODULE PurchaseOrder -----------------------------
(***************************************************************************)
(* PurchaseOrderService (services/inventory/purchaseOrder.go) composed with *)
(* Inventory, whose AdjustStock brings received goods into stock.          *)
(*                                                                         *)
(* A receipt saves each line and adjusts the stock in statements and       *)
(* transactions of their own; the order's status is saved last.  An order  *)
(* has at most one line per item, so a line is named by its item.          *)
(***************************************************************************)
EXTENDS Inventory, Sequences

CONSTANTS
    PurchaseOrders,  \* purchase_orders rows that can be created
    Ordered,         \* quantity of a line
    MaxEntries,      \* bound on the lines named by a receipt
    NoOrder

ASSUME PurchaseOrderAssumption ==
    NoOrder \notin PurchaseOrders /\ Ordered \in Nat \ {0} /\ MaxEntries \in Nat

VARIABLES
    poStatus,    \* status of each order, "absent" before Create
    lines,       \* the items of its lines
    free,        \* orders whose total amount is zero
    received,    \* received_quantity of each line
    po,          \* the order a handler works on
    poMem,       \* the status in its copy
    lineMem,     \* received_quantity in its copies of the lines
    entries,     \* the lines of the receipt it still has to process
    repeated,    \* a receipt has named a line twice
    stocked,     \* what receipts have brought into stock, by line
    lost         \* an adjustment of a receipt has failed or been cut off

orders == <<poStatus, lines, free, received>>
poLocals == <<po, poMem, lineMem, entries>>
vars == <<inventory, orders, poLocals, repeated, stocked, lost>>

NoLines == [i \in Items |-> 0]

Init ==
    /\ InventoryInit
    /\ poStatus = [p \in PurchaseOrders |-> "absent"]
    /\ lines = [p \in PurchaseOrders |-> {}]
    /\ free = {}
    /\ received = [p \in PurchaseOrders |-> NoLines]
    /\ po = [h \in Handlers |-> NoOrder]
    /\ poMem = [h \in Handlers |-> "absent"]
    /\ lineMem = [h \in Handlers |-> NoLines]
    /\ entries = [h \in Handlers |-> <<>>]
    /\ repeated = FALSE
    /\ stocked = [p \in PurchaseOrders |-> NoLines]
    /\ lost = FALSE

Forget(h) ==
    /\ po' = [po EXCEPT ![h] = NoOrder]
    /\ poMem' = [poMem EXCEPT ![h] = "absent"]
    /\ lineMem' = [lineMem EXCEPT ![h] = NoLines]
    /\ entries' = [entries EXCEPT ![h] = <<>>]

Leave(h) == Goto(h, "idle") /\ Forget(h)

(* Everything of Inventory but program counters and faults.  *)
Elsewhere == UNCHANGED <<overlap, stock, cache, notices, locals, moves>>

-----------------------------------------------------------------------------
(* CreatePurchaseOrder: the items of the lines are distinct and exist; the  *)
(* order and its lines are inserted in one transaction.  (An item may be    *)
(* deleted in between, or at any time after that.) *)
CreatePurchaseOrder(h, p, is, zero) ==
    /\ MayStart(h)
    /\ poStatus[p] = "absent"
    /\ is # {} /\ \A i \in is : item[i] = "live"
    /\ poStatus' = [poStatus EXCEPT ![p] = PurchaseOrderFSM.initial]
    /\ lines' = [lines EXCEPT ![p] = is]
    /\ free' = IF zero THEN free \cup {p} ELSE free
    /\ UNCHANGED <<received, poLocals, repeated, stocked, lost, inventory>>

(* firePOEvent: submit, approve, cancel on a copy, which is saved by        *)
(* primary key. *)
FireLoad(h, p, e) ==
    /\ MayStart(h)
    /\ Can(PurchaseOrderFSM, poStatus[p], e)
    /\ e = "submit" => p \notin free
    /\ po' = [po EXCEPT ![h] = p]
    /\ poMem' = [poMem EXCEPT ![h] = Target(PurchaseOrderFSM, poStatus[p], e)]
    /\ Goto(h, "save")
    /\ Elsewhere
    /\ UNCHANGED <<orders, lineMem, entries, repeated, stocked, lost, faults>>

(* The UPDATE; it may fail. *)
SaveStatus(h) ==
    /\ pc[h] = "save"
    /\ \/ /\ poStatus' = [poStatus EXCEPT ![po[h]] = poMem[h]]
          /\ UNCHANGED faults
       \/ Fault /\ UNCHANGED poStatus
    /\ Leave(h)
    /\ Elsewhere
    /\ UNCHANGED <<lines, free, received, repeated, stocked, lost>>

-----------------------------------------------------------------------------
(* ReceivePurchaseOrder. *)

(* The order is loaded; only approved and partially received orders. *)
ReceiveLoad(h, p, named) ==
    /\ MayStart(h)
    /\ poStatus[p] \in {"approved", "partially_received"}
    /\ po' = [po EXCEPT ![h] = p]
    /\ poMem' = [poMem EXCEPT ![h] = poStatus[p]]
    /\ entries' = [entries EXCEPT ![h] = named]
    /\ Goto(h, "lines")
    /\ Elsewhere
    /\ UNCHANGED <<orders, lineMem, repeated, stocked, lost, faults>>

(* Mutant: the ordered quantity is not looked at. *)
Accepted_NoCheck(p, named) ==
    \A n \in DOMAIN named : named[n].line \in lines[p]

(* Every entry names a line of the order and, added to what the copy of the *)
(* line has received, does not exceed what was ordered. *)
Accepted(p, named) ==
    \A n \in DOMAIN named :
        /\ named[n].line \in lines[p]
        /\ received[p][named[n].line] + named[n].quantity <= Ordered

Repeats(named) ==
    \E m, n \in DOMAIN named : m # n /\ named[m].line = named[n].line

(* The lines are loaded and the entries checked against these copies. *)
ReceiveLines(h) ==
    /\ pc[h] = "lines"
    /\ IF Accepted(po[h], entries[h])
       THEN /\ lineMem' = [lineMem EXCEPT ![h] = received[po[h]]]
            /\ repeated' = (repeated \/ Repeats(entries[h]))
            /\ Goto(h, "receive")
            /\ UNCHANGED <<po, poMem, entries>>
       ELSE Leave(h) /\ UNCHANGED repeated
    /\ Elsewhere
    /\ UNCHANGED <<orders, stocked, lost, faults>>

(* What the line has received with entry e, from the copy of handler h. *)
NowReceived_EntryOnly(h, e) == e.quantity   \* Mutant: not added up.

NowReceived(h, e) == lineMem[h][e.line] + e.quantity

(* The next entry: the line's received quantity is saved, from the copy; an *)
(* error ends the request.  An entry of zero is skipped. *)
ReceiveLine(h) ==
    /\ pc[h] = "receive" /\ entries[h] # <<>>
    /\ LET e == Head(entries[h])
           now == NowReceived(h, e) IN
       IF e.quantity = 0
       THEN /\ entries' = [entries EXCEPT ![h] = Tail(@)]
            /\ UNCHANGED <<orders, po, poMem, lineMem, pc, faults>>
       ELSE \/ /\ received' = [received EXCEPT ![po[h]][e.line] = now]
               /\ lineMem' = [lineMem EXCEPT ![h][e.line] = now]
               /\ Goto(h, "stock")
               /\ UNCHANGED <<poStatus, lines, free, po, poMem, entries, faults>>
            \/ Fault /\ Leave(h) /\ UNCHANGED orders
    /\ Elsewhere
    /\ UNCHANGED <<repeated, stocked, lost>>

(* AdjustStock(Reason = received) of the entry starts: Inventory's actions  *)
(* write the quantity and come back to the loop. *)
ReceiveStock(h) ==
    LET e == Head(entries[h]) IN
    /\ pc[h] = "stock"
    /\ AdjustRead(h, e.line, e.quantity, "receive")
    /\ entries' = [entries EXCEPT ![h] = Tail(@)]
    /\ UNCHANGED <<todo, orders, po, poMem, lineMem, repeated, stocked, lost>>

(* It does not: the item is gone or there is an error, be it that the       *)
(* caller may not update inventory, which is dropped (or a bound of         *)
(* Inventory). *)
ReceiveUnstocked(h) ==
    LET e == Head(entries[h]) IN
    /\ pc[h] = "stock"
    /\ \/ Fault
       \/ /\ \/ item[e.line] = "deleted"
             \/ moves = MaxMoves \/ qty[e.line] + e.quantity > MaxQty
          /\ UNCHANGED faults
    /\ entries' = [entries EXCEPT ![h] = Tail(@)]
    /\ Goto(h, "receive")
    /\ lost' = TRUE
    /\ Elsewhere
    /\ UNCHANGED <<orders, po, poMem, lineMem, repeated, stocked>>

AllReceived(p, got) == \A i \in lines[p] : got[i] >= Ordered

(* After the last entry: receive_full if the copies of all lines are full,  *)
(* else receive_partial if the order's copy is approved, else the timestamp. *)
ReceiveEvent(h) ==
    LET full == AllReceived(po[h], lineMem[h])
        e == IF full THEN "receive_full" ELSE "receive_partial" IN
    /\ pc[h] = "receive" /\ entries[h] = <<>>
    /\ IF full \/ poMem[h] = "approved"
       THEN /\ poMem' = [poMem EXCEPT ![h] = Target(PurchaseOrderFSM, @, e)]
            /\ Goto(h, "save")
            /\ UNCHANGED <<po, lineMem, entries>>
       ELSE Leave(h)
    /\ Elsewhere
    /\ UNCHANGED <<orders, repeated, stocked, lost, faults>>

-----------------------------------------------------------------------------
(* Inventory's movements, those of receipts and others, and deletions.      *)
(* (Its other steps leave quantities and rows alone.)  What a receipt's     *)
(* transaction commits, or fails to, is noted. *)
Commits(p, i) ==
    {h \in Handlers : /\ po[h] = p /\ job[h].item = i /\ job[h].back = "receive"
                      /\ pc[h] = "write" /\ pc'[h] = "committed"}

StockStep ==
    /\ MovementStep \/ DeletionStep
    /\ stocked' = [p \in PurchaseOrders |-> [i \in Items |->
                     stocked[p][i] + IF Commits(p, i) = {} THEN 0
                                     ELSE job[CHOOSE h \in Commits(p, i) : TRUE].delta]]
    /\ lost' = (lost \/ \E h \in Handlers : pc[h] = "write" /\ pc'[h] = "receive")
    /\ UNCHANGED <<orders, poLocals, repeated>>

(* A process stops: a line it has saved may stay without its adjustment.    *)
Stop(h) ==
    /\ Crash(h)
    /\ Forget(h)
    /\ lost' = (lost \/ (po[h] # NoOrder /\ pc[h] \in {"stock", "write"}))
    /\ UNCHANGED <<orders, repeated, stocked>>

(* A request that is refused. *)
Turned(h) == MayStart(h) /\ UNCHANGED vars

Receipts ==
    UNION {[1..n -> [line : Items, quantity : 0..Ordered]] : n \in 0..MaxEntries}

Next ==
    \/ StockStep
    \/ \E h \in Handlers :
         \/ Turned(h) \/ Stop(h) \/ SaveStatus(h) \/ ReceiveLines(h) \/ ReceiveLine(h)
         \/ ReceiveStock(h) \/ ReceiveUnstocked(h) \/ ReceiveEvent(h)
         \/ \E p \in PurchaseOrders :
              \/ \E is \in SUBSET Items, zero \in BOOLEAN :
                   CreatePurchaseOrder(h, p, is, zero)
              \/ \E e \in {"submit", "approve", "cancel"} : FireLoad(h, p, e)
              \/ \E named \in Receipts : ReceiveLoad(h, p, named)

Spec == Init /\ [][Next]_vars

-----------------------------------------------------------------------------
(* Properties. *)

(* Type invariant: orders, lines and the copies of a receipt. *)
TypeOK ==
    /\ poStatus \in [PurchaseOrders -> PurchaseOrderFSM.states \cup {"absent"}]
    /\ lines \in [PurchaseOrders -> SUBSET Items]
    /\ free \subseteq PurchaseOrders
    /\ received \in [PurchaseOrders -> [Items -> Nat]]
    /\ poMem \in [Handlers -> PurchaseOrderFSM.states \cup {"absent"}]
    /\ lineMem \in [Handlers -> [Items -> Nat]]
    /\ \A h \in Handlers :
         /\ po[h] \in PurchaseOrders \cup {NoOrder}
         /\ Len(entries[h]) <= MaxEntries
         /\ pc[h] \in {"save", "lines", "receive", "stock"} => po[h] # NoOrder
    /\ stocked \in [PurchaseOrders -> [Items -> Nat]]

(* A line never receives more than was ordered, also when receipts overlap  *)
(* and lose each other's updates, as long as no receipt names a line twice  *)
(* (purchaseOrder.go:402-419).                                              *)
ReceivedWithinOrder ==
    ~repeated => \A p \in PurchaseOrders, i \in Items : received[p][i] <= Ordered

(* "received quantity exceeds ordered quantity" is an error                 *)
(* (purchaseOrder.go:58).                                                   *)
NeverExceedsOrdered ==
    \A p \in PurchaseOrders, i \in Items : received[p][i] <= Ordered

(* Status and lines agree, whatever receipt stops half-way: an order is     *)
(* received when all its lines are, and one that is not approved or has     *)
(* been cancelled has received nothing (purchaseOrder.go:5-18, 458-500).    *)
SerialStatusMatchesLines ==
    ~overlap =>
        \A p \in PurchaseOrders :
            /\ poStatus[p] = "received" => \A i \in lines[p] : received[p][i] >= Ordered
            /\ poStatus[p] \in {"draft", "submitted", "cancelled"} => received[p] = NoLines

(* "purchase orders are the canonical way stock enters the system"          *)
(* (purchaseOrder.go:27-28): without overlap, what a line has received is   *)
(* what the ledger has booked for it, save for an adjustment that failed,   *)
(* whenever no receipt is between the two (purchaseOrder.go:428-455).       *)
SerialReceivedIsStocked ==
    ~overlap /\ ~lost /\ (\A h \in Handlers : pc[h] = "idle") => stocked = received

(* The types, and what receipts that take turns keep true of orders, lines  *)
(* and the ledger (purchaseOrder.go:387-500). *)
ReceiptsSound == TypeOK /\ SerialStatusMatchesLines /\ SerialReceivedIsStocked
=============================================================================
