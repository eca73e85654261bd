------------------------------- MODULE Inventory -------------------------------
(***************************************************************************)
(* InventoryService (services/inventory/inventory.go) and InventoryNotifier *)
(* (inventoryNotif.go): the items, their quantity and its ledger of        *)
(* movements, the links from menu items, the cached item and the low-stock *)
(* goroutines.                                                             *)
(*                                                                         *)
(* A request reads the item, computes the new quantity, and writes it with *)
(* the movement in a transaction.  The read is not part of the transaction *)
(* (and the FOR UPDATE lock of DeductForOrder ends with its SELECT).  The   *)
(* schema is migrated without foreign keys (DB/database.go:34): movements   *)
(* and links survive their item, and new ones may refer to one that is gone. *)
(***************************************************************************)
EXTENDS DomainFSMs, FiniteSets

CONSTANTS
    Handlers,    \* request goroutines and the relay's notifier
    Items,       \* inventory_items rows that can be created
    MenuItems,
    Points,      \* reorder points an item may have
    Openings,    \* quantities an item may be created with
    Deltas,      \* manual adjustments
    MaxQty,      \* bound on quantities
    MaxMoves,    \* bound on adjustments and deductions
    MaxFaults,   \* bound on crashes, database and Redis errors
    Overlaps,    \* whether requests may overlap: the answers to try
    None         \* no item, no menu item, no cached entry

(* A NULL reorder point is one below every quantity. *)
NoPoint == -1

ASSUME InventoryAssumption ==
    /\ None \notin Items /\ None \notin Int
    /\ Points \subseteq Nat \cup {NoPoint}
    /\ Deltas \subseteq Int \ {0}
    /\ Openings \subseteq 0..MaxQty
    /\ IsFiniteSet(MenuItems)
    /\ MaxQty \in Nat /\ MaxMoves \in Nat /\ MaxFaults \in Nat
    /\ Overlaps \subseteq BOOLEAN

VARIABLES
    overlap,     \* the answer of this behaviour
    item,        \* "unborn", "live" or "deleted"
    qty,         \* current_quantity
    point,       \* reorder_point
    booked,      \* sum of quantity_delta over the item's movements
    clamped,     \* what deductions have taken beyond zero
    link,        \* menu_item_inventory_links: "none", "active" or "inactive"
    cache,       \* quantity in inventory:item:{tenant}:{item}, or None
    debounce,    \* items whose low-stock alert key is in Redis
    low,         \* items that a movement has left at or below their point
    noticed,     \* items with a low-stock notification
    alerts,      \* checkLowStock goroutines: <<item, movement, step>>
    pc,          \* next step of each handler
    job,         \* its copy of the item and what it is about to write
    todo,        \* deductions a handler still has to make
    moves,       \* adjustments, deductions and creations begun
    faults

stock == <<item, qty, point, booked, clamped, link>>
notices == <<debounce, low, noticed, alerts>>
locals == <<job, todo>>
inventory == <<overlap, stock, cache, notices, pc, locals, moves, faults>>

JobOn(i, m, n) ==
    [item |-> i, menu |-> m, delta |-> 0, new |-> n, short |-> 0, point |-> NoPoint,
     move |-> 0, back |-> "idle"]
NoJob == JobOn(None, None, 0)
NoTodo == [i \in Items |-> 0]

InventoryInit ==
    /\ overlap \in Overlaps
    /\ item = [i \in Items |-> "unborn"]
    /\ qty = [i \in Items |-> 0]
    /\ point = [i \in Items |-> NoPoint]
    /\ booked = [i \in Items |-> 0]
    /\ clamped = [i \in Items |-> 0]
    /\ link = [m \in MenuItems |-> [i \in Items |-> "none"]]
    /\ cache = [i \in Items |-> None]
    /\ debounce = {} /\ low = {} /\ noticed = {} /\ alerts = {}
    /\ pc = [h \in Handlers |-> "idle"]
    /\ job = [h \in Handlers |-> NoJob]
    /\ todo = [h \in Handlers |-> NoTodo]
    /\ moves = 0
    /\ faults = 0

MayStart(h) ==
    /\ pc[h] = "idle"
    /\ overlap \/ \A g \in Handlers : pc[g] = "idle"

Goto(h, step) == pc' = [pc EXCEPT ![h] = step]

(* The handler holds a copy of item i, which it is about to change. *)
Hold(h, i, step) ==
    /\ job' = [job EXCEPT ![h] = JobOn(i, None, 0)]
    /\ Goto(h, step)

(* Back to the caller: the client, or the loop that made the adjustment. *)
Return(h) ==
    /\ job' = [job EXCEPT ![h] = NoJob]
    /\ Goto(h, job[h].back)

Fault == faults < MaxFaults /\ faults' = faults + 1

-----------------------------------------------------------------------------
(* Low-stock alerts. *)

DeriveInventoryState(q, p) ==
    IF q <= 0 THEN "out_of_stock" ELSE IF q <= p THEN "low_stock" ELSE "active"

StockEvent ==
    [active |-> "stock_replenished", low_stock |-> "stock_low", out_of_stock |-> "stock_depleted"]

(* Mutant: the event is only tried from low_stock. *)
EntersAlert_FromLowOnly(q, p) ==
    LET s == DeriveInventoryState(q, p) IN
    /\ s # "active"
    /\ Can(InventoryItemFSM, "low_stock", StockEvent[s])

(* evaluateStockTransition: the event of the derived state, sent from each  *)
(* of the other states until one accepts it; the goroutine is started for   *)
(* an alert state. *)
EntersAlert(q, p) ==
    LET s == DeriveInventoryState(q, p) IN
    /\ s # "active"
    /\ \E src \in {"active", "low_stock", "out_of_stock"} \ {s} :
         Can(InventoryItemFSM, src, StockEvent[s])

(* checkLowStock looks at the goroutine's copy first: a reorder point that  *)
(* is not exceeded. *)
AlertDue(q, p) == EntersAlert(q, p) /\ q <= p

Alert(g, step) == alerts' = (alerts \ {g}) \cup {<<g[1], g[2], step>>}

AlertDebounce(g) ==
    /\ g[3] = "get"
    /\ IF g[1] \in debounce THEN alerts' = alerts \ {g} ELSE Alert(g, "set")
    /\ UNCHANGED <<debounce, noticed>>

AlertSetKey(g) ==
    /\ g[3] = "set"
    /\ debounce' = debounce \cup {g[1]}
    /\ Alert(g, "notify")
    /\ UNCHANGED noticed

AlertNotify(g) ==
    /\ g[3] = "notify"
    /\ noticed' = noticed \cup {g[1]}
    /\ alerts' = alerts \ {g}
    /\ UNCHANGED debounce

CheckLowStock ==
    /\ \E g \in alerts : AlertDebounce(g) \/ AlertSetKey(g) \/ AlertNotify(g)
    /\ UNCHANGED <<overlap, stock, low, cache, pc, locals, moves, faults>>

DebounceExpires(i) ==
    /\ i \in debounce
    /\ debounce' = debounce \ {i}
    /\ UNCHANGED <<overlap, stock, cache, low, noticed, alerts, pc, locals, moves, faults>>

-----------------------------------------------------------------------------
(* Items. *)

(* CreateItem: the item and its opening movement in one transaction. *)
CreateItem(h, i, q, p) ==
    /\ MayStart(h) /\ moves < MaxMoves
    /\ item[i] = "unborn"
    /\ moves' = moves + 1
    /\ item' = [item EXCEPT ![i] = "live"]
    /\ qty' = [qty EXCEPT ![i] = q]
    /\ point' = [point EXCEPT ![i] = p]
    /\ booked' = [booked EXCEPT ![i] = q]
    /\ job' = [job EXCEPT ![h] =
                  [item |-> i, menu |-> None, delta |-> 0, new |-> q, short |-> 0, point |-> p,
                   move |-> moves', back |-> "idle"]]
    /\ Goto(h, "committed")
    /\ UNCHANGED <<overlap, clamped, link, cache, notices, todo, faults>>

(* UpdateItem: load, write the columns of the patch (of interest: the       *)
(* reorder point), invalidate.  An UPDATE of a deleted row is no error. *)
PatchLoad(h, i) ==
    /\ MayStart(h) /\ item[i] = "live"
    /\ Hold(h, i, "patch")
    /\ UNCHANGED <<overlap, stock, cache, notices, todo, moves, faults>>

PatchSave(h) ==
    /\ pc[h] = "patch"
    /\ \/ item[job[h].item] = "live"
          /\ \E p \in Points \ {NoPoint} : point' = [point EXCEPT ![job[h].item] = p]
       \/ UNCHANGED point
    /\ Goto(h, "patched")
    /\ UNCHANGED <<overlap, item, qty, booked, clamped, link, cache, notices,
                   locals, moves, faults>>

(* DeleteItem: load, count the active links, delete. *)
DeleteLoad(h, i) ==
    /\ MayStart(h) /\ item[i] = "live"
    /\ Hold(h, i, "count")
    /\ UNCHANGED <<overlap, stock, cache, notices, todo, moves, faults>>

Linked(i) == \E m \in MenuItems : link[m][i] = "active"

DeleteCount(h) ==
    /\ pc[h] = "count"
    /\ IF Linked(job[h].item) THEN Return(h) ELSE Goto(h, "delete") /\ UNCHANGED job
    /\ UNCHANGED <<overlap, stock, cache, notices, todo, moves, faults>>

DeleteRow(h) ==
    LET i == job[h].item IN
    /\ pc[h] = "delete"
    /\ item' = [item EXCEPT ![i] = "deleted"]
    /\ qty' = [qty EXCEPT ![i] = 0]
    /\ Goto(h, "patched")
    /\ UNCHANGED <<overlap, point, booked, clamped, link, cache, notices, locals,
                   moves, faults>>

DeleteFails(h) ==
    /\ pc[h] = "delete" /\ Fault
    /\ Return(h)
    /\ UNCHANGED <<overlap, stock, cache, notices, todo, moves>>

(* GetItem, a miss: load the row, then write it to the cache.  A hit        *)
(* changes nothing. *)
GetLoad(h, i) ==
    /\ MayStart(h) /\ item[i] = "live" /\ cache[i] = None
    /\ job' = [job EXCEPT ![h] = JobOn(i, None, qty[i])]
    /\ Goto(h, "fill")
    /\ UNCHANGED <<overlap, stock, cache, notices, todo, moves, faults>>

GetFill(h) ==
    /\ pc[h] = "fill"
    /\ cache' = [cache EXCEPT ![job[h].item] = job[h].new]
    /\ Return(h)
    /\ UNCHANGED <<overlap, stock, notices, todo, moves, faults>>

CacheExpires(i) ==
    /\ cache[i] # None
    /\ cache' = [cache EXCEPT ![i] = None]
    /\ UNCHANGED <<overlap, stock, notices, pc, locals, moves, faults>>

-----------------------------------------------------------------------------
(* Stock movements. *)

(* The item is read and the quantity to be written computed from the copy.  *)
Read(h, i, delta, new, back) ==
    /\ new <= MaxQty /\ moves < MaxMoves
    /\ moves' = moves + 1
    /\ job' = [job EXCEPT ![h] =
                  [item |-> i, menu |-> None, delta |-> delta, new |-> new,
                   short |-> new - (qty[i] + delta), point |-> point[i],
                   move |-> moves', back |-> back]]
    /\ Goto(h, "write")
    /\ UNCHANGED <<overlap, stock, cache, notices, faults>>

(* AdjustStock: refused when the copy's quantity does not suffice. *)
AdjustRead(h, i, delta, back) ==
    /\ item[i] = "live"
    /\ qty[i] + delta >= 0
    /\ Read(h, i, delta, qty[i] + delta, back)

Adjust(h, i, delta) ==
    /\ MayStart(h)
    /\ AdjustRead(h, i, delta, "idle")
    /\ UNCHANGED todo

(* An UPDATE of a row that is gone changes nothing and is no error.         *)
Written(i, n) == IF item[i] = "live" THEN [qty EXCEPT ![i] = n] ELSE qty

(* Mutant: the quantity is updated relative to the stored one. *)
Commit_Relative(h) ==
    LET j == job[h] IN
    /\ pc[h] = "write"
    /\ qty' = Written(j.item, qty[j.item] + j.delta)
    /\ booked' = [booked EXCEPT ![j.item] = @ + j.delta]
    /\ clamped' = clamped
    /\ Goto(h, "committed")
    /\ UNCHANGED <<overlap, item, point, link, cache, notices, locals, moves, faults>>

(* Mutant: the movement is written after the transaction, and lost when    *)
(* that fails. *)
Commit_MovementApart(h) ==
    LET j == job[h] IN
    /\ pc[h] = "write"
    /\ qty' = Written(j.item, j.new)
    /\ booked' \in {booked, [booked EXCEPT ![j.item] = @ + j.delta]}
    /\ clamped' = clamped
    /\ Goto(h, "committed")
    /\ UNCHANGED <<overlap, item, point, link, cache, notices, locals, moves, faults>>

(* The transaction: the new quantity and the movement.  A deduction below   *)
(* zero is clamped, its movement is not. *)
Commit(h) ==
    LET j == job[h] IN
    /\ pc[h] = "write"
    /\ qty' = Written(j.item, j.new)
    /\ booked' = [booked EXCEPT ![j.item] = @ + j.delta]
    /\ clamped' = [clamped EXCEPT ![j.item] = @ + j.short]
    /\ Goto(h, "committed")
    /\ UNCHANGED <<overlap, item, point, link, cache, notices, locals, moves, faults>>

CommitFails(h) ==
    /\ pc[h] = "write" /\ Fault
    /\ Return(h)
    /\ UNCHANGED <<overlap, stock, cache, notices, todo, moves>>

(* After a mutation: the cached item is dropped (errors are ignored) and,   *)
(* after one of the quantity, the stock state evaluated. *)
Settle(h) ==
    LET j == job[h] IN
    /\ pc[h] \in {"committed", "patched"}
    /\ \/ cache' = [cache EXCEPT ![j.item] = None] /\ UNCHANGED faults
       \/ Fault /\ UNCHANGED cache
    /\ alerts' = IF pc[h] = "committed" /\ AlertDue(j.new, j.point)
                 THEN alerts \cup {<<j.item, j.move, "get">>} ELSE alerts
    /\ low' = IF pc[h] = "committed" /\ j.new <= j.point THEN low \cup {j.item} ELSE low
    /\ Return(h)
    /\ UNCHANGED <<overlap, stock, debounce, noticed, todo, moves>>

-----------------------------------------------------------------------------
(* DeductForOrder. *)

(* What an order of the menu items takes of an item: one unit through each  *)
(* active link. *)
Needed(order) ==
    [i \in Items |-> Cardinality({m \in order : link[m][i] = "active"})]

(* Step 1: the active links are loaded and summed up per item. *)
DeductLoad(h, order) ==
    /\ MayStart(h)
    /\ Needed(order) # NoTodo
    /\ todo' = [todo EXCEPT ![h] = Needed(order)]
    /\ Goto(h, "deduct")
    /\ UNCHANGED <<overlap, stock, cache, notices, job, moves, faults>>

Drop(h, i) == todo' = [todo EXCEPT ![h][i] = 0]

Floor(n) == IF n < 0 THEN 0 ELSE n

(* Step 2, item by item in the order the map yields them: read, clamp at    *)
(* zero; the rest as in AdjustStock. *)
DeductRead(h, i) ==
    /\ pc[h] = "deduct" /\ todo[h][i] > 0 /\ item[i] = "live"
    /\ Read(h, i, -todo[h][i], Floor(qty[i] - todo[h][i]), "deduct")
    /\ Drop(h, i)

(* An item that is gone or cannot be read is skipped. *)
DeductSkip(h, i) ==
    /\ pc[h] = "deduct" /\ todo[h][i] > 0
    /\ IF item[i] = "live" THEN Fault ELSE UNCHANGED faults
    /\ Drop(h, i)
    /\ UNCHANGED <<overlap, stock, cache, notices, pc, job, moves>>

DeductDone(h) ==
    /\ pc[h] = "deduct" /\ todo[h] = NoTodo
    /\ Goto(h, "idle")
    /\ UNCHANGED <<overlap, stock, cache, notices, locals, moves, faults>>

(* Bound: no movement is left for the deduction. *)
DeductBounded(h) ==
    /\ pc[h] = "deduct" /\ moves = MaxMoves
    /\ todo' = [todo EXCEPT ![h] = NoTodo]
    /\ Goto(h, "idle")
    /\ UNCHANGED <<overlap, stock, cache, notices, job, moves, faults>>

-----------------------------------------------------------------------------
(* Links. *)

(* CreateLink, first step: a link of the pair, active or not, is refused.   *)
LinkLookup(h, m, i) ==
    /\ MayStart(h)
    /\ item[i] # "unborn" /\ link[m][i] = "none"
    /\ job' = [job EXCEPT ![h] = JobOn(i, m, 0)]
    /\ Goto(h, "link")
    /\ UNCHANGED <<overlap, stock, cache, notices, todo, moves, faults>>

(* Second step: the INSERT, which the unique index may refuse. *)
LinkCreate(h) ==
    LET i == job[h].item  m == job[h].menu IN
    /\ pc[h] = "link"
    /\ link' = IF link[m][i] = "none" THEN [link EXCEPT ![m][i] = "active"] ELSE link
    /\ Return(h)
    /\ UNCHANGED <<overlap, item, qty, point, booked, clamped, cache, notices,
                   todo, moves, faults>>

(* DeleteLink is one UPDATE. *)
DeleteLink(m, i) ==
    /\ link[m][i] # "none"
    /\ link' = [link EXCEPT ![m][i] = "inactive"]
    /\ UNCHANGED <<overlap, item, qty, point, booked, clamped, cache, notices,
                   pc, locals, moves, faults>>

-----------------------------------------------------------------------------
(* The process of a request stops, and with it goroutines it has started.   *)
Crash(h) ==
    /\ pc[h] # "idle" /\ Fault
    /\ Goto(h, "idle")
    /\ job' = [job EXCEPT ![h] = NoJob]
    /\ todo' = [todo EXCEPT ![h] = NoTodo]
    /\ alerts' \in SUBSET alerts
    /\ UNCHANGED <<overlap, stock, cache, debounce, low, noticed, moves>>

(* A request that is refused or a cache hit. *)
Refused(h) == MayStart(h) /\ UNCHANGED inventory

(* Whatever changes the quantity of an item. *)
MovementStep ==
    \E h \in Handlers :
        \/ Commit(h) \/ CommitFails(h) \/ Settle(h)
        \/ DeductDone(h) \/ DeductBounded(h)
        \/ \E i \in Items : DeductRead(h, i) \/ DeductSkip(h, i)
        \/ \E order \in SUBSET MenuItems : DeductLoad(h, order)
        \/ \E i \in Items, d \in Deltas : Adjust(h, i, d)
        \/ \E i \in Items, q \in Openings, p \in Points : CreateItem(h, i, q, p)

DeletionStep ==
    \E h \in Handlers :
        \/ DeleteCount(h) \/ DeleteRow(h) \/ DeleteFails(h)
        \/ \E i \in Items : DeleteLoad(h, i)

InventoryNext ==
    \/ MovementStep \/ DeletionStep
    \/ \E h \in Handlers :
         \/ PatchSave(h) \/ GetFill(h) \/ LinkCreate(h) \/ Crash(h) \/ Refused(h)
         \/ \E i \in Items : PatchLoad(h, i) \/ GetLoad(h, i)
         \/ \E m \in MenuItems, i \in Items : LinkLookup(h, m, i)
    \/ CheckLowStock
    \/ \E i \in Items : CacheExpires(i) \/ DebounceExpires(i)
    \/ \E m \in MenuItems, i \in Items : DeleteLink(m, i)

InventorySpec == InventoryInit /\ [][InventoryNext]_inventory

-----------------------------------------------------------------------------
(* Properties. *)

(* The steps at which a handler holds a copy of an item. *)
Holding == {"patch", "patched", "count", "delete", "fill", "write", "committed", "link"}

(* Type invariant: rows, caches, goroutines and the handlers' copies. *)
InventoryTypeOK ==
    /\ item \in [Items -> {"unborn", "live", "deleted"}]
    /\ qty \in [Items -> Int]
    /\ point \in [Items -> Points \cup {NoPoint}]
    /\ booked \in [Items -> Int] /\ clamped \in [Items -> Nat]
    /\ link \in [MenuItems -> [Items -> {"none", "active", "inactive"}]]
    /\ cache \in [Items -> (0..MaxQty) \cup {None}]
    /\ debounce \subseteq Items /\ low \subseteq Items /\ noticed \subseteq Items
    /\ alerts \subseteq Items \X (1..MaxMoves) \X {"get", "set", "notify"}
    /\ DOMAIN pc = Handlers
    /\ \A h \in Handlers :
         /\ job[h].item \in Items \cup {None}
         /\ job[h].item # None <=> pc[h] \in Holding
         /\ job[h].new \in 0..MaxQty
    /\ todo \in [Handlers -> [Items -> 0..Cardinality(MenuItems)]]
    /\ moves \in 0..MaxMoves /\ faults \in 0..MaxFaults

(* The rows of inventory_items, and the items with a cached entry. *)
Live == {i \in DOMAIN item : item[i] = "live"}
Cached == {i \in DOMAIN cache : cache[i] # None}

(* However adjustments, deductions and receipts interleave, the quantity    *)
(* written was checked or clamped on the copy it was computed from: stock   *)
(* never goes below zero (inventory.go:571, 673), unless an item is created *)
(* with less.                                                               *)
StockNeverNegative == \A i \in Live : qty[i] >= 0

(* "Both the InventoryItem.CurrentQuantity and the StockMovement row are    *)
(* written in a single transaction - they are always consistent"            *)
(* (inventory.go:544): as long as requests on an item do not overlap, the   *)
(* movements of an item sum up to its quantity, save for what deductions    *)
(* were clamped by; crashes and errors at any point included.               *)
SerialLedgerSums ==
    ~overlap => \A i \in Live : qty[i] = booked[i] + clamped[i]

(* "All mutating operations invalidate affected keys before returning"      *)
(* (inventory.go:34): without overlap, errors and crashes the cached item   *)
(* is the stored one whenever no request runs.                              *)
SerialCacheFresh ==
    ~overlap /\ faults = 0 /\ (\A h \in Handlers : pc[h] \in {"idle", "deduct"}) =>
        \A i \in Cached : i \in Live /\ cache[i] = qty[i]

(* "After every deduction, checkLowStock() fires a goroutine that writes a  *)
(* Notification row when CurrentQuantity <= ReorderPoint" (inventory.go:16): *)
(* unless a process stops, a movement that has left an item at or below its *)
(* point has a notice or a goroutine that is about to write one; the        *)
(* debounce key never stands for a notice that nobody writes.               *)
LowStockNoticed ==
    faults = 0 =>
        \A i \in low : i \in noticed \/ \E g \in alerts : g[1] = i

(* What requests that take turns keep true of the ledger and of the cache.  *)
LedgerSound == SerialLedgerSums /\ SerialCacheFresh
=============================================================================
