------------------------------ MODULE StockProofs ------------------------------
(***************************************************************************)
(* Safety of stock and of purchase orders for any number of requests,      *)
(* items, orders, lines, movements and faults.                             *)
(*                                                                         *)
(* Of InventoryService alone, three invariants: Types, which bounds what a *)
(* request is about to write and so the stored quantity; LowInv, about the *)
(* debounce key; and SerialInv, about the copy of a request when requests  *)
(* take turns.                                                             *)
(*                                                                         *)
(* Of receipts, which check their entries against copies of the lines and  *)
(* then write the copies back one by one: ReceiptInv says that what is left *)
(* to write fits into the order, line by line, as long as no two entries   *)
(* name the same line; OrderInv, for requests that take turns, says where  *)
(* the only one stands: its copies are the rows, and what it has saved of  *)
(* a line and not yet booked is all by which lines and ledger differ.      *)
(***************************************************************************)
EXTENDS PurchaseOrder, FiniteSetTheorems, SequenceTheorems, TLAPS

(* Where a request can stand. *)
Steps == Holding \cup {"idle", "deduct"}

(* A request's copy of an item and what it is about to write. *)
JobType ==
    [item : Items \cup {None}, menu : MenuItems \cup {None}, delta : Int, new : 0..MaxQty, short : Nat,
     point : Points \cup {NoPoint}, move : 0..MaxMoves, back : {"idle", "deduct"}]

(* Per item, how many servings an order has still to deduct. *)
TodoType == [Items -> 0..Cardinality(MenuItems)]

(* The stored rows and their bookkeeping. *)
Rows ==
    /\ item \in [Items -> {"unborn", "live", "deleted"}]
    /\ qty \in [Items -> 0..MaxQty]
    /\ point \in [Items -> Points \cup {NoPoint}]
    /\ booked \in [Items -> Int] /\ clamped \in [Items -> Nat]
    /\ link \in [MenuItems -> [Items -> {"none", "active", "inactive"}]]
    /\ cache \in [Items -> (0..MaxQty) \cup {None}]

(* Keys, notices and the goroutines that write them. *)
Notices ==
    /\ debounce \subseteq Items /\ low \subseteq Items /\ noticed \subseteq Items
    /\ alerts \subseteq Items \X (1..MaxMoves) \X {"get", "set", "notify"}

(* What requests keep to themselves. *)
Locals ==
    /\ pc \in [Handlers -> Steps]
    /\ job \in [Handlers -> JobType]
    /\ todo \in [Handlers -> TodoType]

(* What a handler's copy is about. *)
HandlerInv(h) ==
    /\ job[h].item # None <=> pc[h] \in Holding
    /\ pc[h] \in Holding => item[job[h].item] # "unborn"
    /\ pc[h] \in {"write", "committed"} => job[h].move \in 1..MaxMoves
    /\ pc[h] = "link" => job[h].menu \in MenuItems

(* The inductive type invariant: what is about to be written is never *)
(* negative. *)
Types ==
    /\ Rows /\ Notices /\ Locals
    /\ moves \in 0..MaxMoves /\ faults \in 0..MaxFaults
    /\ \A h \in Handlers : HandlerInv(h)

(* A key without a notice is that of a goroutine about to write one. *)
LowInv ==
    faults = 0 =>
        /\ \A i \in low : i \in noticed \/ \E g \in alerts : g[1] = i
        /\ \A i \in debounce : i \in noticed \/ \E g \in alerts : g[1] = i /\ g[3] = "notify"

-----------------------------------------------------------------------------
(* The assumptions on the constants, in one place. *)
LEMMA Constants ==
    /\ MaxQty \in Nat /\ MaxMoves \in Nat /\ MaxFaults \in Nat
    /\ NoPoint \in Int /\ Points \subseteq Int /\ Openings \subseteq 0..MaxQty /\ Deltas \subseteq Int
    /\ None \notin Items /\ None \notin Int
    /\ Cardinality(MenuItems) \in Nat
BY InventoryAssumption, FS_CardinalityType DEF NoPoint

(* Deducing an alert state never fails to start the goroutine: some other   *)
(* state accepts the event. *)
LEMMA LowAlerts ==
    ASSUME NEW q \in Int, NEW p \in Int, q <= p
    PROVE  AlertDue(q, p)
<1> DEFINE T == InventoryItemFSM.trans
<1>1. /\ <<"active", "stock_low", "low_stock">> \in T
      /\ <<"active", "stock_depleted", "out_of_stock">> \in T
      /\ "active" \notin InventoryItemFSM.terminal
  BY DEF InventoryItemFSM, Definition, FromEach
<1>2. Can(InventoryItemFSM, "active", "stock_low") /\ Can(InventoryItemFSM, "active", "stock_depleted")
  <2>1. \A e, u : <<"active", e, u>>[1] = "active" /\ <<"active", e, u>>[2] = e
    OBVIOUS
  <2> HIDE DEF T
  <2> QED
    BY <1>1, <2>1 DEF Can, CanTransition, T
<1>3. DeriveInventoryState(q, p) \in {"out_of_stock", "low_stock"}
  BY DEF DeriveInventoryState
<1>4. StockEvent["low_stock"] = "stock_low" /\ StockEvent["out_of_stock"] = "stock_depleted"
  BY DEF StockEvent
<1>5. EntersAlert(q, p)
  <2>1. CASE DeriveInventoryState(q, p) = "low_stock"
    BY <1>2, <1>4, <2>1 DEF EntersAlert
  <2>2. CASE DeriveInventoryState(q, p) = "out_of_stock"
    BY <1>2, <1>4, <2>2 DEF EntersAlert
  <2> QED
    BY <1>3, <2>1, <2>2
<1> QED
  BY <1>5 DEF AlertDue

(* The copies a request starts with are well typed. *)
LEMMA NewJobs ==
    /\ NoJob \in JobType /\ NoJob.item = None
    /\ \A i \in Items, m \in MenuItems \cup {None}, q \in 0..MaxQty :
         /\ JobOn(i, m, q) \in JobType
         /\ JobOn(i, m, q).item = i /\ JobOn(i, m, q).menu = m /\ JobOn(i, m, q).new = q
BY Constants DEF NoJob, JobOn, JobType

(* Nothing to deduct is well typed. *)
LEMMA NoTodoType == NoTodo \in TodoType
BY Constants DEF NoTodo, TodoType

(* What an order deducts is at most one serving per menu item *)
(* (inventory.go:645-659). *)
LEMMA NeededType == ASSUME NEW order, order \subseteq MenuItems PROVE Needed(order) \in TodoType
<1>1. ASSUME NEW i \in Items
      PROVE  Cardinality({m \in order : link[m][i] = "active"}) \in 0..Cardinality(MenuItems)
  <2>1. {m \in order : link[m][i] = "active"} \subseteq MenuItems
    OBVIOUS
  <2>2. IsFiniteSet(MenuItems)
    BY InventoryAssumption
  <2>3. /\ IsFiniteSet({m \in order : link[m][i] = "active"})
        /\ Cardinality({m \in order : link[m][i] = "active"}) <= Cardinality(MenuItems)
    BY <2>1, <2>2, FS_Subset
  <2> QED
    BY <2>2, <2>3, FS_CardinalityType
<1> QED
  BY <1>1 DEF Needed, TodoType

(* The type invariant holds initially. *)
LEMMA TypesInit == InventoryInit => Types
<1> SUFFICES ASSUME InventoryInit PROVE Types
  OBVIOUS
<1>1. Rows /\ Notices
  BY Constants DEF InventoryInit, Rows, Notices
<1>2. Locals /\ \A h \in Handlers : HandlerInv(h)
  BY NewJobs, NoTodoType DEF InventoryInit, Locals, Steps, HandlerInv, Holding
<1> QED
  BY <1>1, <1>2, Constants DEF Types, InventoryInit

(* The invariant of the debounce key holds initially. *)
LEMMA LowInit == InventoryInit => LowInv
BY DEF InventoryInit, LowInv

-----------------------------------------------------------------------------
(* Only handler h moves. *)
Only(h) ==
    /\ pc' = [pc EXCEPT ![h] = pc'[h]]
    /\ job' = [job EXCEPT ![h] = job'[h]]
    /\ todo' = [todo EXCEPT ![h] = todo'[h]]

(* ... and its copy is as it should be. *)
Copied(h) ==
    /\ Only(h)
    /\ pc'[h] \in Steps /\ job'[h] \in JobType /\ todo'[h] \in TodoType
    /\ HandlerInv(h)'

(* A step of one request keeps the types if it keeps the rows' and its *)
(* own, and no row disappears. *)
LEMMA HandlerStep ==
    ASSUME Types, NEW h \in Handlers, Copied(h), Rows', Notices', moves' \in 0..MaxMoves, faults' \in 0..MaxFaults,
           \A i \in Items : item[i] # "unborn" => item'[i] # "unborn"
    PROVE  Types'
<1>1. Locals'
  BY DEF Types, Locals, Copied, Only
<1>2. ASSUME NEW g \in Handlers, g # h PROVE HandlerInv(g)'
  <2>1. pc'[g] = pc[g] /\ job'[g] = job[g]
    BY <1>2 DEF Types, Locals, Copied, Only
  <2>2. HandlerInv(g) /\ job[g].item \in Items \cup {None}
    BY DEF Types, Locals, JobType
  <2> QED
    BY <2>1, <2>2 DEF HandlerInv
<1>3. HandlerInv(h)'
  BY DEF Copied
<1> QED
  BY <1>1, <1>2, <1>3 DEF Types

(* Steps that touch no row and no notice. *)
Still ==
    /\ UNCHANGED <<overlap, stock, cache, notices>>
    /\ moves' \in 0..MaxMoves /\ faults' \in 0..MaxFaults

(* A step that writes nothing keeps the types. *)
LEMMA StillStep ==
    ASSUME Types, NEW h \in Handlers, Copied(h), Still
    PROVE  Types'
<1>1. Rows' /\ Notices' /\ \A i \in Items : item[i] # "unborn" => item'[i] # "unborn"
  BY DEF Types, Rows, Notices, Still, stock, notices
<1> QED
  BY <1>1, HandlerStep DEF Still

(* Returning from a call leaves the request idle or in its deduction. *)
LEMMA ReturnCopied ==
    ASSUME Types, NEW h \in Handlers, Return(h), UNCHANGED todo
    PROVE  Copied(h) /\ pc'[h] \in {"idle", "deduct"}
<1>1. job[h].back \in {"idle", "deduct"} /\ todo[h] \in TodoType
  BY DEF Types, Locals, JobType
<1>2. pc' = [pc EXCEPT ![h] = job[h].back] /\ job' = [job EXCEPT ![h] = NoJob]
  BY DEF Return, Goto
<1>3. pc'[h] = job[h].back /\ job'[h] = NoJob /\ Only(h)
  BY <1>2 DEF Types, Locals, Only
<1> QED
  BY <1>1, <1>3, NewJobs DEF Copied, HandlerInv, Steps, Holding

(* Loading a row that exists gives the request a well-typed copy. *)
LEMMA HoldCopied ==
    ASSUME Types, NEW h \in Handlers, NEW i \in Items, NEW m \in MenuItems \cup {None}, NEW q \in 0..MaxQty,
           NEW step \in {"patch", "count", "fill", "link"}, item[i] # "unborn",
           step = "link" => m \in MenuItems,
           job' = [job EXCEPT ![h] = JobOn(i, m, q)], Goto(h, step), UNCHANGED <<todo, item>>
    PROVE  Copied(h)
<1>1. /\ JobOn(i, m, q) \in JobType /\ JobOn(i, m, q).item = i /\ JobOn(i, m, q).menu = m
      /\ None \notin Items
  BY NewJobs, Constants
<1>2. pc'[h] = step /\ job'[h] = JobOn(i, m, q) /\ Only(h) /\ todo'[h] \in TodoType
  BY DEF Types, Locals, Only, Goto
<1> QED
  BY <1>1, <1>2 DEF Copied, HandlerInv, Steps, Holding

(* Faults stay within their bound. *)
LEMMA FaultType == ASSUME Types, Fault PROVE faults' \in 0..MaxFaults
BY Constants DEF Types, Fault

(* Loads, refusals and errors. *)
LEMMA LoadSteps ==
    ASSUME Types, NEW h \in Handlers,
           \/ DeleteCount(h) \/ DeleteFails(h) \/ CommitFails(h) \/ DeductDone(h) \/ DeductBounded(h)
           \/ \E i \in Items : PatchLoad(h, i) \/ DeleteLoad(h, i) \/ GetLoad(h, i) \/ DeductSkip(h, i)
           \/ \E m \in MenuItems, i \in Items : LinkLookup(h, m, i)
           \/ \E order \in SUBSET MenuItems : DeductLoad(h, order)
    PROVE  Copied(h) /\ Still
<1>1. Rows /\ Locals /\ HandlerInv(h)
  BY DEF Types
<1>2. Still
  BY FaultType DEF DeleteCount, DeleteFails, CommitFails, DeductDone, DeductBounded, PatchLoad, DeleteLoad, GetLoad,
                   DeductSkip, LinkLookup, DeductLoad, Still, Types
<1> SUFFICES Copied(h)
  BY <1>2
<1>3. ASSUME UNCHANGED todo, Return(h) PROVE Copied(h)
  BY <1>3, ReturnCopied
<1>4. CASE DeleteCount(h)
  <2>1. CASE pc' = [pc EXCEPT ![h] = "delete"] /\ UNCHANGED <<job, todo, item>> /\ pc[h] = "count"
    BY <1>1, <2>1 DEF Locals, Copied, Only, HandlerInv, Steps, Holding
  <2> QED
    BY <1>3, <1>4, <2>1 DEF DeleteCount, Goto, stock
<1>5. CASE DeleteFails(h) \/ CommitFails(h)
  BY <1>3, <1>5 DEF DeleteFails, CommitFails
<1>6. CASE DeductDone(h) \/ DeductBounded(h)
  <2>1. /\ pc[h] = "deduct" /\ pc' = [pc EXCEPT ![h] = "idle"] /\ job' = job
        /\ todo' = todo \/ todo' = [todo EXCEPT ![h] = NoTodo]
    BY <1>6 DEF DeductDone, DeductBounded, Goto, locals
  <2> QED
    BY <1>1, <2>1, NoTodoType DEF Locals, Copied, Only, HandlerInv, Steps, Holding
<1>7. ASSUME NEW i \in Items, PatchLoad(h, i) \/ DeleteLoad(h, i) \/ GetLoad(h, i)
      PROVE  Copied(h)
  <2>1. 0 \in 0..MaxQty /\ qty[i] \in 0..MaxQty /\ item[i] # "unborn" /\ UNCHANGED <<todo, item>>
    BY <1>1, <1>7, Constants DEF Rows, PatchLoad, DeleteLoad, GetLoad, stock
  <2>2. PICK q \in 0..MaxQty, step \in {"patch", "count", "fill"} :
          /\ job' = [job EXCEPT ![h] = JobOn(i, None, q)] /\ Goto(h, step)
    BY <1>7, <2>1 DEF PatchLoad, DeleteLoad, GetLoad, Hold
  <2> QED
    <3>1. None \in MenuItems \cup {None} /\ step \in {"patch", "count", "fill", "link"} /\ step # "link"
      OBVIOUS
    <3> QED
      BY <2>1, <2>2, <3>1, HoldCopied
<1>8. ASSUME NEW m \in MenuItems, NEW i \in Items, LinkLookup(h, m, i)
      PROVE  Copied(h)
  <2>1. 0 \in 0..MaxQty /\ m \in MenuItems \cup {None}
    BY Constants
  <2>2. /\ item[i] # "unborn" /\ job' = [job EXCEPT ![h] = JobOn(i, m, 0)]
        /\ Goto(h, "link") /\ UNCHANGED <<todo, item>>
    BY <1>8 DEF LinkLookup, stock
  <2> QED
    BY <2>1, <2>2, HoldCopied
<1>9. ASSUME NEW i \in Items, DeductSkip(h, i)
      PROVE  Copied(h)
  <2>1. todo' = [todo EXCEPT ![h][i] = 0] /\ UNCHANGED <<pc, job, item>>
    BY <1>9 DEF DeductSkip, Drop, stock
  <2>2. todo'[h] \in TodoType
    BY <1>1, <2>1, Constants DEF Locals, TodoType
  <2> QED
    BY <1>1, <2>1, <2>2 DEF Locals, Copied, Only, HandlerInv
<1>10. ASSUME NEW order \in SUBSET MenuItems, DeductLoad(h, order)
       PROVE  Copied(h)
  <2>1. Needed(order) \in TodoType
    BY NeededType
  <2>2. /\ todo' = [todo EXCEPT ![h] = Needed(order)] /\ pc' = [pc EXCEPT ![h] = "deduct"]
        /\ pc[h] = "idle" /\ UNCHANGED <<job, item>>
    BY <1>10 DEF DeductLoad, MayStart, Goto, stock
  <2> QED
    BY <1>1, <2>1, <2>2 DEF Locals, Copied, Only, HandlerInv, Steps, Holding
<1> QED
  BY <1>2, <1>4, <1>5, <1>6, <1>7, <1>8, <1>9, <1>10

(* A movement is computed from the copy: it is never below zero. *)
LEMMA ReadStep ==
    ASSUME Types, NEW h \in Handlers, NEW i \in Items, NEW delta \in Int, NEW new \in Nat,
           NEW back \in {"idle", "deduct"}, item[i] # "unborn", new - (qty[i] + delta) \in Nat,
           Read(h, i, delta, new, back), todo' \in [Handlers -> TodoType], todo' = [todo EXCEPT ![h] = todo'[h]]
    PROVE  Copied(h) /\ Still
<1>1. Rows /\ Locals /\ HandlerInv(h) /\ moves \in 0..MaxMoves /\ faults \in 0..MaxFaults
  BY DEF Types
<1>2. moves' = moves + 1 /\ moves' \in 1..MaxMoves /\ new \in 0..MaxQty
  BY <1>1, Constants DEF Read
<1>3. PICK j : /\ j = [item |-> i, menu |-> None, delta |-> delta, new |-> new,
                      short |-> new - (qty[i] + delta), point |-> point[i], move |-> moves', back |-> back]
               /\ job' = [job EXCEPT ![h] = j]
  BY DEF Read
<1>4. point[i] \in Points \cup {NoPoint} /\ moves' \in 0..MaxMoves /\ None \notin Items
  BY <1>1, <1>2, Constants DEF Rows
<1>5. j \in JobType /\ j.item = i /\ j.move = moves'
  BY <1>2, <1>3, <1>4 DEF JobType
<1>6. pc' = [pc EXCEPT ![h] = "write"] /\ pc'[h] = "write" /\ job'[h] = j /\ UNCHANGED item
  BY <1>1, <1>3 DEF Read, Goto, Locals, stock
<1>7. Copied(h)
  BY <1>1, <1>2, <1>3, <1>4, <1>5, <1>6 DEF Locals, Copied, Only, HandlerInv, Steps, Holding
<1> QED
  BY <1>1, <1>2, <1>7 DEF Still, Read

(* AdjustStock's and DeductForOrder's read compute a quantity that is not *)
(* negative (inventory.go:547-617, 662-709). *)
LEMMA ReadSteps ==
    ASSUME Types, NEW h \in Handlers, NEW i \in Items,
           DeductRead(h, i) \/ \E d \in Deltas : Adjust(h, i, d)
    PROVE  Copied(h) /\ Still
<1>1. qty[i] \in 0..MaxQty /\ Locals
  BY DEF Types, Rows
<1>2. CASE DeductRead(h, i)
  <2>1. todo[h][i] \in Nat /\ qty[i] \in Nat
    BY <1>1, Constants DEF Locals, TodoType
  <2>2. PICK t \in Nat : t = todo[h][i]
    BY <2>1
  <2>3. Floor(qty[i] - t) \in Nat /\ Floor(qty[i] - t) - (qty[i] + (-t)) \in Nat /\ -t \in Int
    BY <2>1 DEF Floor
  <2>4. /\ item[i] # "unborn" /\ Read(h, i, -t, Floor(qty[i] - t), "deduct")
        /\ todo' = [todo EXCEPT ![h][i] = 0]
    BY <1>2, <2>2 DEF DeductRead, Drop
  <2>5. todo' \in [Handlers -> TodoType] /\ todo' = [todo EXCEPT ![h] = todo'[h]]
    BY <1>1, <2>4, Constants DEF Locals, TodoType
  <2> QED
    BY <2>3, <2>4, <2>5, ReadStep
<1>3. ASSUME NEW d \in Deltas, Adjust(h, i, d)
      PROVE  Copied(h) /\ Still
  <2>1. d \in Int /\ qty[i] + d \in Nat /\ qty[i] + d - (qty[i] + d) \in Nat
    BY <1>1, <1>3, Constants DEF Adjust, AdjustRead
  <2>2. item[i] # "unborn" /\ Read(h, i, d, qty[i] + d, "idle") /\ todo' = todo
    BY <1>3 DEF Adjust, AdjustRead
  <2>3. todo' \in [Handlers -> TodoType] /\ todo' = [todo EXCEPT ![h] = todo'[h]]
    BY <1>1, <2>2 DEF Locals
  <2> QED
    BY <2>1, <2>2, <2>3, ReadStep
<1> QED
  BY <1>2, <1>3

(* Steps that write rows, links or the cache. *)
LEMMA WriteSteps ==
    ASSUME Types, NEW h \in Handlers,
           \/ Commit(h) \/ PatchSave(h) \/ DeleteRow(h)
           \/ GetFill(h) \/ LinkCreate(h)
    PROVE  Types' /\ Only(h)
<1>1. Rows /\ Locals /\ HandlerInv(h) /\ Notices
  BY DEF Types
<1>2. pc[h] \in Holding /\ job[h].item \in Items /\ job[h] \in JobType
  BY <1>1 DEF Commit, PatchSave, DeleteRow, GetFill, LinkCreate, Holding, HandlerInv, Locals, JobType
<1>3. Notices' /\ moves' \in 0..MaxMoves /\ faults' \in 0..MaxFaults
  BY DEF Types, Notices, Commit, PatchSave, DeleteRow, GetFill, LinkCreate, notices
<1>4. PICK i \in Items : i = job[h].item
  BY <1>2
<1>5. \A k \in Items : item[k] # "unborn" => item'[k] # "unborn"
  BY <1>1 DEF Rows, Commit, PatchSave, DeleteRow, GetFill, LinkCreate, stock
<1>6. CASE GetFill(h) \/ LinkCreate(h)
  <2>1. Copied(h)
    BY <1>6, ReturnCopied DEF GetFill, LinkCreate
  <2>2. CASE GetFill(h)
    <3>1. /\ cache' = [cache EXCEPT ![i] = job[h].new] /\ job[h].new \in 0..MaxQty
          /\ UNCHANGED <<item, qty, point, booked, clamped, link>>
      BY <1>2, <1>4, <2>2 DEF GetFill, JobType, stock
    <3>2. Rows'
      BY <1>1, <3>1 DEF Rows
    <3> QED
      BY <1>3, <1>5, <2>1, <3>2, HandlerStep DEF Copied
  <2>3. CASE LinkCreate(h)
    <3>1. PICK m \in MenuItems : m = job[h].menu
      BY <1>1, <2>3 DEF LinkCreate, HandlerInv
    <3>2. /\ link' = link \/ link' = [link EXCEPT ![m][i] = "active"]
          /\ UNCHANGED <<item, qty, point, booked, clamped, cache>>
      BY <1>4, <2>3, <3>1 DEF LinkCreate
    <3>3. link' \in [MenuItems -> [Items -> {"none", "active", "inactive"}]]
      <4>1. link \in [MenuItems -> [Items -> {"none", "active", "inactive"}]]
        BY <1>1 DEF Rows
      <4> QED
        BY ONLY <3>2, <4>1
    <3>4. Rows'
      BY <1>1, <3>2, <3>3 DEF Rows
    <3> QED
      BY <1>3, <1>5, <2>1, <3>4, HandlerStep DEF Copied
  <2> QED
    BY <1>6, <2>2, <2>3
<1>7. CASE Commit(h) \/ PatchSave(h) \/ DeleteRow(h)
  <2>1. /\ UNCHANGED <<job, todo, cache, link>>
        /\ \/ pc' = [pc EXCEPT ![h] = "committed"] /\ pc[h] = "write"
           \/ pc' = [pc EXCEPT ![h] = "patched"]
    BY <1>7 DEF Commit, PatchSave, DeleteRow, Goto, locals
  <2>2. item'[i] # "unborn"
    BY <1>1, <1>2, <1>4, <1>5 DEF HandlerInv
  <2>3. Copied(h)
    BY <1>1, <1>2, <1>4, <2>1, <2>2 DEF Locals, Copied, Only, HandlerInv, Steps, Holding
  <2>4. Rows'
    <3>1. CASE Commit(h)
      <4>1. job[h].new \in 0..MaxQty /\ job[h].delta \in Int /\ job[h].short \in Nat
        BY <1>2 DEF JobType
      <4>2. /\ qty' = qty \/ qty' = [qty EXCEPT ![i] = job[h].new]
            /\ booked' = [booked EXCEPT ![i] = booked[i] + job[h].delta]
            /\ clamped' = [clamped EXCEPT ![i] = clamped[i] + job[h].short]
            /\ UNCHANGED <<item, point>>
        BY <1>4, <3>1 DEF Commit, Written
      <4>3. booked[i] + job[h].delta \in Int /\ clamped[i] + job[h].short \in Nat
        BY <1>1, <4>1 DEF Rows
      <4> QED
        BY <1>1, <2>1, <4>1, <4>2, <4>3 DEF Rows
    <3>2. CASE PatchSave(h)
      <4>1. /\ point' = point \/ \E p \in Points : point' = [point EXCEPT ![i] = p]
            /\ UNCHANGED <<item, qty, booked, clamped>>
        BY <1>4, <3>2 DEF PatchSave
      <4> QED
        BY <1>1, <2>1, <4>1 DEF Rows
    <3>3. CASE DeleteRow(h)
      <4>1. /\ item' = [item EXCEPT ![i] = "deleted"] /\ qty' = [qty EXCEPT ![i] = 0]
            /\ UNCHANGED <<point, booked, clamped>>
        BY <1>4, <3>3 DEF DeleteRow
      <4> QED
        BY <1>1, <2>1, <4>1, Constants DEF Rows
    <3> QED
      BY <1>7, <3>1, <3>2, <3>3
  <2> QED
    BY <1>3, <1>5, <2>3, <2>4, HandlerStep DEF Copied
<1> QED
  BY <1>6, <1>7

(* CreateItem keeps the types. *)
LEMMA CreateItemStep ==
    ASSUME Types, NEW h \in Handlers, NEW i \in Items, NEW q \in Openings, NEW p \in Points, CreateItem(h, i, q, p)
    PROVE  Types' /\ Only(h)
<1>1. Rows /\ Locals /\ Notices /\ moves \in 0..MaxMoves /\ None \notin Items
  BY Constants DEF Types
<1>2. /\ moves' \in 1..MaxMoves /\ moves' \in 0..MaxMoves /\ q \in 0..MaxQty /\ q \in Int
  BY <1>1, Constants DEF CreateItem
<1>3. PICK j : /\ j = [item |-> i, menu |-> None, delta |-> 0, new |-> q, short |-> 0, point |-> p,
                      move |-> moves', back |-> "idle"]
               /\ job' = [job EXCEPT ![h] = j]
  BY DEF CreateItem
<1>4. j \in JobType /\ j.item = i /\ j.move = moves'
  BY <1>2, <1>3 DEF JobType
<1>5. pc' = [pc EXCEPT ![h] = "committed"] /\ UNCHANGED <<todo, link, clamped, cache>>
  BY DEF CreateItem, Goto
<1>6. /\ item' = [item EXCEPT ![i] = "live"] /\ qty' = [qty EXCEPT ![i] = q] /\ point' = [point EXCEPT ![i] = p]
      /\ booked' = [booked EXCEPT ![i] = q]
  BY DEF CreateItem
<1>7. Rows' /\ \A k \in Items : item[k] # "unborn" => item'[k] # "unborn"
  BY <1>1, <1>2, <1>5, <1>6 DEF Rows
<1>8. pc'[h] = "committed" /\ job'[h] = j /\ item'[i] # "unborn" /\ todo'[h] \in TodoType
  BY <1>1, <1>3, <1>5, <1>6 DEF Locals, Rows
<1>9. Copied(h)
  BY <1>1, <1>2, <1>3, <1>4, <1>5, <1>8 DEF Locals, Copied, Only, HandlerInv, Steps, Holding
<1>10. Notices' /\ faults' \in 0..MaxFaults
  BY DEF Types, Notices, CreateItem, notices
<1> QED
  BY <1>2, <1>7, <1>9, <1>10, HandlerStep DEF Copied

(* What follows a committed movement keeps the types. *)
LEMMA SettleStep ==
    ASSUME Types, NEW h \in Handlers, Settle(h)
    PROVE  Types' /\ Only(h)
<1>1. Rows /\ Locals /\ Notices /\ HandlerInv(h) /\ job[h] \in JobType
  BY DEF Types, Locals
<1>2. Copied(h)
  BY ReturnCopied DEF Settle
<1>3. job[h].item \in Items
  BY <1>1 DEF Settle, HandlerInv, Holding, JobType
<1>4. Rows'
  <2>1. cache' = cache \/ cache' = [cache EXCEPT ![job[h].item] = None]
    BY DEF Settle
  <2> QED
    BY <1>1, <2>1 DEF Rows, Settle, stock
<1>5. Notices'
  <2>1. \/ alerts' = alerts
        \/ pc[h] = "committed" /\ alerts' = alerts \cup {<<job[h].item, job[h].move, "get">>}
    BY DEF Settle
  <2>2. pc[h] = "committed" => job[h].move \in 1..MaxMoves
    BY <1>1 DEF HandlerInv
  <2>3. alerts' \subseteq Items \X (1..MaxMoves) \X {"get", "set", "notify"}
    BY <1>1, <1>3, <2>1, <2>2 DEF Notices
  <2> QED
    BY <1>1, <1>3, <2>3 DEF Notices, Settle
<1>6. /\ moves' \in 0..MaxMoves /\ faults' \in 0..MaxFaults
      /\ \A k \in Items : item[k] # "unborn" => item'[k] # "unborn"
  BY FaultType DEF Types, Settle, stock
<1> QED
  BY <1>2, <1>4, <1>5, <1>6, HandlerStep DEF Copied

(* A request that stops half-way keeps the types. *)
LEMMA CrashStep ==
    ASSUME Types, NEW h \in Handlers, Crash(h)
    PROVE  Types' /\ Only(h)
<1>1. Rows /\ Locals /\ Notices
  BY DEF Types
<1>2. pc' = [pc EXCEPT ![h] = "idle"] /\ job' = [job EXCEPT ![h] = NoJob] /\ todo' = [todo EXCEPT ![h] = NoTodo]
  BY DEF Crash, Goto
<1>3. Copied(h)
  BY <1>1, <1>2, NewJobs, NoTodoType DEF Locals, Copied, Only, HandlerInv, Steps, Holding
<1>4. Rows' /\ Notices' /\ \A k \in Items : item[k] # "unborn" => item'[k] # "unborn"
  BY <1>1 DEF Rows, Notices, Crash, stock
<1>5. moves' \in 0..MaxMoves /\ faults' \in 0..MaxFaults
  BY FaultType DEF Types, Crash
<1> QED
  BY <1>3, <1>4, <1>5, HandlerStep DEF Copied

(* Goroutines, expiry and links: no handler moves. *)
LEMMA OtherSteps ==
    ASSUME Types, \/ CheckLowStock
                  \/ \E i \in Items : CacheExpires(i) \/ DebounceExpires(i)
                  \/ \E m \in MenuItems, i \in Items : DeleteLink(m, i)
                  \/ UNCHANGED inventory
    PROVE  Types' /\ UNCHANGED <<overlap, item, qty, point, booked, clamped, pc, job, todo, faults>>
<1>1. Rows /\ Locals /\ Notices
  BY DEF Types
<1>2. UNCHANGED <<overlap, item, qty, point, booked, clamped, pc, job, todo, moves, faults, low>>
  BY DEF CheckLowStock, CacheExpires, DebounceExpires, DeleteLink, inventory, stock, notices, locals
<1>3. Rows'
  <2>1. /\ cache' = cache \/ \E i \in Items : cache' = [cache EXCEPT ![i] = None]
        /\ link' = link \/ \E m \in MenuItems, i \in Items : link' = [link EXCEPT ![m][i] = "inactive"]
    BY DEF CheckLowStock, CacheExpires, DebounceExpires, DeleteLink, inventory, stock
  <2>2. link' \in [MenuItems -> [Items -> {"none", "active", "inactive"}]]
    BY <1>1, <2>1 DEF Rows
  <2> QED
    BY <1>1, <1>2, <2>1, <2>2 DEF Rows
<1>4. Notices'
  <2>1. ASSUME NEW g \in alerts, NEW step \in {"get", "set", "notify"}
        PROVE  <<g[1], g[2], step>> \in Items \X (1..MaxMoves) \X {"get", "set", "notify"} /\ g[1] \in Items
    BY <1>1 DEF Notices
  <2>2. CASE CheckLowStock
    BY <1>1, <1>2, <2>1, <2>2 DEF Notices, CheckLowStock, AlertDebounce, AlertSetKey, AlertNotify, Alert
  <2>3. CASE UNCHANGED <<noticed, alerts>> /\ debounce' \subseteq debounce
    BY <1>1, <1>2, <2>3 DEF Notices
  <2> QED
    BY <2>2, <2>3 DEF CacheExpires, DebounceExpires, DeleteLink, inventory, notices
<1>5. Locals' /\ \A h \in Handlers : HandlerInv(h)'
  BY <1>1, <1>2 DEF Types, Locals, HandlerInv
<1> QED
  BY <1>2, <1>3, <1>4, <1>5 DEF Types

(* Every step keeps the type invariant. *)
LEMMA TypesStep == Types /\ [InventoryNext]_inventory => Types'
<1> SUFFICES ASSUME Types, [InventoryNext]_inventory PROVE Types'
  OBVIOUS
<1>1. ASSUME MovementStep PROVE Types'
  BY <1>1, LoadSteps, ReadSteps, StillStep, WriteSteps, SettleStep, CreateItemStep DEF MovementStep
<1>2. ASSUME DeletionStep PROVE Types'
  BY <1>2, LoadSteps, StillStep, WriteSteps DEF DeletionStep
<1>3. ASSUME NEW h \in Handlers,
             \/ PatchSave(h) \/ GetFill(h) \/ LinkCreate(h) \/ Crash(h)
             \/ \E i \in Items : PatchLoad(h, i) \/ GetLoad(h, i)
             \/ \E m \in MenuItems, i \in Items : LinkLookup(h, m, i)
      PROVE  Types'
  BY <1>3, LoadSteps, StillStep, WriteSteps, CrashStep
<1> QED
  BY <1>1, <1>2, <1>3, OtherSteps DEF InventoryNext, Refused

(* Stock is never negative. *)
THEOREM NeverNegative == InventorySpec => []StockNeverNegative
<1>1. Types => StockNeverNegative
  BY Constants DEF Types, Rows, StockNeverNegative, Live
<1> QED
  BY TypesInit, TypesStep, <1>1, PTL DEF InventorySpec

-----------------------------------------------------------------------------
(* Low stock. *)
LEMMA LowStep == ASSUME Types, LowInv, [InventoryNext]_inventory PROVE LowInv'
<1>1. Notices /\ Locals /\ faults \in Nat
  BY Constants DEF Types
<1>2. SUFFICES ASSUME faults' = 0
               PROVE  /\ \A i \in low' : i \in noticed' \/ \E g \in alerts' : g[1] = i
                      /\ \A i \in debounce' : i \in noticed' \/ \E g \in alerts' : g[1] = i /\ g[3] = "notify"
  BY DEF LowInv
<1>3. ASSUME UNCHANGED notices, faults' = faults \/ faults' = faults + 1 PROVE LowInv'
  BY <1>1, <1>3 DEF LowInv, notices
<1>4. ASSUME NEW h \in Handlers, Settle(h) PROVE LowInv'
  <2>1. job[h] \in JobType /\ job[h].new \in Int /\ job[h].point \in Int
    <3>1. job[h] \in JobType
      BY <1>1 DEF Locals
    <3>2. job[h].new \in 0..MaxQty /\ job[h].point \in Points \cup {NoPoint}
      BY <3>1 DEF JobType
    <3>3. \A x \in 0..MaxQty : x \in Int
      BY Constants
    <3>4. \A x \in Points \cup {NoPoint} : x \in Int
      BY Constants
    <3> QED
      BY <3>1, <3>2, <3>3, <3>4
  <2>2. /\ alerts' = alerts \/ alerts' = alerts \cup {<<job[h].item, job[h].move, "get">>}
        /\ \/ low' = low
           \/ low' = low \cup {job[h].item} /\ pc[h] = "committed" /\ job[h].new <= job[h].point
        /\ UNCHANGED <<debounce, noticed>>
    BY <1>4 DEF Settle
  <2>3. ASSUME low' # low PROVE \E g \in alerts' : g[1] = job[h].item
    <3>1. pc[h] = "committed" /\ job[h].new <= job[h].point
      BY <2>2, <2>3
    <3>2. AlertDue(job[h].new, job[h].point)
      BY <2>1, <3>1, LowAlerts
    <3>3. <<job[h].item, job[h].move, "get">> \in alerts'
      BY <1>4, <3>1, <3>2 DEF Settle
    <3> QED
      BY <3>3
  <2>4. faults' = 0 => faults = 0
    BY <1>1, <1>4 DEF Settle, Fault
  <2> QED
    BY <2>2, <2>3, <2>4 DEF LowInv
<1>5. ASSUME NEW h \in Handlers, Crash(h) PROVE FALSE
  BY <1>1, <1>2, <1>5 DEF Crash, Fault
<1>6. CASE CheckLowStock
  <2>1. faults = 0 /\ low' = low
    BY <1>2, <1>6 DEF CheckLowStock
  <2>2. PICK g \in alerts : AlertDebounce(g) \/ AlertSetKey(g) \/ AlertNotify(g)
    BY <1>6 DEF CheckLowStock
  <2>3. \A a \in alerts : a = <<a[1], a[2], a[3]>>
    BY <1>1 DEF Notices
  <2>4. CASE AlertDebounce(g)
    <3>1. CASE g[1] \in debounce
      BY <2>1, <2>4, <3>1 DEF AlertDebounce, LowInv
    <3>2. CASE g[1] \notin debounce
      <4>1. alerts' = (alerts \ {g}) \cup {<<g[1], g[2], "set">>} /\ g[3] = "get" /\ UNCHANGED <<debounce, noticed>>
        BY <2>4, <3>2 DEF AlertDebounce, Alert
      <4>2. <<g[1], g[2], "set">> \in alerts' /\ <<g[1], g[2], "set">>[1] = g[1]
        BY <4>1
      <4>3. \A a \in alerts : a = g \/ a \in alerts'
        BY <4>1
      <4>4. ASSUME NEW i \in low' PROVE i \in noticed' \/ \E a \in alerts' : a[1] = i
        BY <2>1, <4>1, <4>2, <4>3 DEF LowInv
      <4>5. ASSUME NEW i \in debounce' PROVE i \in noticed' \/ \E a \in alerts' : a[1] = i /\ a[3] = "notify"
        BY <2>1, <4>1, <4>3 DEF LowInv
      <4> QED
        BY <4>4, <4>5
    <3> QED
      BY <3>1, <3>2
  <2>5. CASE AlertSetKey(g)
    <3>1. /\ alerts' = (alerts \ {g}) \cup {<<g[1], g[2], "notify">>} /\ g[3] = "set"
          /\ debounce' = debounce \cup {g[1]} /\ UNCHANGED noticed
      BY <2>5 DEF AlertSetKey, Alert
    <3>2. PICK b \in alerts' : b[1] = g[1] /\ b[3] = "notify"
      <4>1. <<g[1], g[2], "notify">> \in alerts'
        BY <3>1
      <4>2. <<g[1], g[2], "notify">>[1] = g[1] /\ <<g[1], g[2], "notify">>[3] = "notify"
        OBVIOUS
      <4> QED
        BY <4>1, <4>2
    <3>3. \A a \in alerts : a = g \/ a \in alerts'
      BY <3>1
    <3>4. ASSUME NEW i \in low' PROVE i \in noticed' \/ \E a \in alerts' : a[1] = i
      BY <2>1, <3>1, <3>2, <3>3 DEF LowInv
    <3>5. ASSUME NEW i \in debounce' PROVE i \in noticed' \/ \E a \in alerts' : a[1] = i /\ a[3] = "notify"
      BY <2>1, <3>1, <3>2, <3>3 DEF LowInv
    <3> QED
      BY <3>4, <3>5
  <2>6. CASE AlertNotify(g)
    <3>1. alerts' = alerts \ {g} /\ noticed' = noticed \cup {g[1]} /\ UNCHANGED debounce
      BY <2>6 DEF AlertNotify
    <3>2. \A a \in alerts : a = g \/ a \in alerts'
      BY <3>1
    <3>3. ASSUME NEW i \in low' PROVE i \in noticed' \/ \E a \in alerts' : a[1] = i
      BY <2>1, <3>1, <3>2 DEF LowInv
    <3>4. ASSUME NEW i \in debounce' PROVE i \in noticed' \/ \E a \in alerts' : a[1] = i /\ a[3] = "notify"
      BY <2>1, <3>1, <3>2 DEF LowInv
    <3> QED
      BY <3>3, <3>4
  <2> QED
    BY <2>2, <2>4, <2>5, <2>6
<1>7. ASSUME NEW i \in Items, DebounceExpires(i) PROVE LowInv'
  BY <1>7 DEF DebounceExpires, LowInv
<1>8. \/ UNCHANGED notices /\ (faults' = faults \/ faults' = faults + 1)
      \/ \E h \in Handlers : Settle(h) \/ Crash(h)
      \/ CheckLowStock
      \/ \E i \in Items : DebounceExpires(i)
  <2>1. ASSUME NEW h \in Handlers,
               \/ Commit(h) \/ CommitFails(h) \/ DeductDone(h) \/ DeductBounded(h)
               \/ DeleteCount(h) \/ DeleteRow(h) \/ DeleteFails(h)
               \/ PatchSave(h) \/ GetFill(h) \/ LinkCreate(h) \/ Refused(h)
        PROVE  UNCHANGED notices /\ (faults' = faults \/ faults' = faults + 1)
    BY <2>1 DEF Commit, CommitFails, DeductDone, DeductBounded, DeleteCount, DeleteRow, DeleteFails, PatchSave, GetFill,
                LinkCreate, Refused, Fault, inventory
  <2>2. ASSUME NEW h \in Handlers, NEW i \in Items,
               \/ DeductRead(h, i) \/ DeductSkip(h, i) \/ DeleteLoad(h, i) \/ PatchLoad(h, i) \/ GetLoad(h, i)
               \/ \E d \in Deltas : Adjust(h, i, d)
               \/ \E q \in Openings, p \in Points : CreateItem(h, i, q, p)
               \/ \E m \in MenuItems : LinkLookup(h, m, i)
        PROVE  UNCHANGED notices /\ (faults' = faults \/ faults' = faults + 1)
    BY <2>2 DEF DeductRead, DeductSkip, DeleteLoad, PatchLoad, GetLoad, Adjust, AdjustRead, Read, CreateItem, LinkLookup,
                Fault
  <2>3. ASSUME NEW h \in Handlers, NEW order, DeductLoad(h, order)
        PROVE  UNCHANGED notices /\ (faults' = faults \/ faults' = faults + 1)
    BY <2>3 DEF DeductLoad
  <2>4. ASSUME NEW i \in Items, CacheExpires(i) \/ \E m \in MenuItems : DeleteLink(m, i)
        PROVE  UNCHANGED notices /\ (faults' = faults \/ faults' = faults + 1)
    BY <2>4 DEF CacheExpires, DeleteLink
  <2>5. CASE UNCHANGED inventory
    BY <2>5 DEF inventory
  <2> QED
    BY <2>1, <2>2, <2>3, <2>4, <2>5 DEF InventoryNext, MovementStep, DeletionStep
<1> QED
  BY <1>2, <1>3, <1>4, <1>5, <1>6, <1>7, <1>8 DEF LowInv

(* A movement that left an item low has its notice, or a goroutine about to *)
(* write one, unless a process stopped. *)
THEOREM LowNoticed == InventorySpec => []LowStockNoticed
<1>1. Types /\ LowInv => LowStockNoticed
  BY DEF LowInv, LowStockNoticed
<1>2. Types /\ LowInv /\ [InventoryNext]_inventory => LowInv'
  BY LowStep
<1> QED
  BY TypesInit, TypesStep, LowInit, <1>1, <1>2, PTL DEF InventorySpec

-----------------------------------------------------------------------------
(* The ledger and the cache, when requests take turns. *)
OneBusy == \A g, h \in Handlers : pc[g] # "idle" /\ pc[h] # "idle" => g = h

(* The copy a handler writes from is still that of the row. *)
SerialHandler(h) ==
    /\ pc[h] = "write" /\ item[job[h].item] = "live" => job[h].new = qty[job[h].item] + job[h].delta + job[h].short
    /\ pc[h] = "fill" => item[job[h].item] = "live" /\ job[h].new = qty[job[h].item]

(* The movements sum up to the quantity. *)
Ledger ==
    \A i \in Items : /\ item[i] = "live" => qty[i] = booked[i] + clamped[i]
                     /\ item[i] = "unborn" => clamped[i] = 0

(* A cached item is the stored one, but for a request about to drop it. *)
CacheInv ==
    \A i \in Items : cache[i] # None => \/ item[i] = "live" /\ cache[i] = qty[i]
                                        \/ \E h \in Handlers : pc[h] \in {"committed", "patched"} /\ job[h].item = i

(* The invariant of requests that take turns. *)
SerialInv ==
    ~overlap => OneBusy /\ Ledger /\ (faults = 0 => CacheInv) /\ \A h \in Handlers : SerialHandler(h)

(* The serial invariant holds initially. *)
LEMMA SerialInit == InventoryInit => SerialInv
BY Constants DEF InventoryInit, SerialInv, OneBusy, Ledger, CacheInv, SerialHandler

(* When requests take turns, the one that acts is the only one under way. *)
LEMMA OneRequest ==
    ASSUME SerialInv, ~overlap, NEW h \in Handlers, pc[h] # "idle" \/ MayStart(h)
    PROVE  \A g \in Handlers : g # h => pc[g] = "idle"
BY DEF SerialInv, OneBusy, MayStart

(* A step of the only request keeps the serial invariant if it keeps *)
(* ledger, cache and its own copy. *)
LEMMA SerialStep ==
    ASSUME Types, SerialInv, ~overlap, NEW h \in Handlers, Only(h), \A g \in Handlers : g # h => pc[g] = "idle",
           SerialHandler(h)', Ledger', faults' = 0 => CacheInv'
    PROVE  SerialInv'
<1>1. \A g \in Handlers : g # h => pc'[g] = "idle"
  BY DEF Types, Locals, Only
<1>2. OneBusy' /\ \A g \in Handlers : SerialHandler(g)'
  BY <1>1 DEF OneBusy, SerialHandler
<1> QED
  BY <1>2 DEF SerialInv

(* Loading and giving up keep the serial invariant. *)
LEMMA SerialLoads ==
    ASSUME Types, SerialInv, ~overlap, NEW h \in Handlers,
           \/ DeleteCount(h) \/ DeleteFails(h) \/ CommitFails(h) \/ DeductDone(h) \/ DeductBounded(h)
           \/ \E i \in Items : PatchLoad(h, i) \/ DeleteLoad(h, i) \/ GetLoad(h, i) \/ DeductSkip(h, i)
           \/ \E m \in MenuItems, i \in Items : LinkLookup(h, m, i)
           \/ \E order \in SUBSET MenuItems : DeductLoad(h, order)
           \/ \E i \in Items : DeductRead(h, i) \/ \E d \in Deltas : Adjust(h, i, d)
    PROVE  SerialInv'
<1>1. Copied(h) /\ Still
  BY LoadSteps, ReadSteps
<1>2. Rows /\ Locals /\ SerialHandler(h) /\ Ledger /\ (faults = 0 => CacheInv) /\ faults \in Nat
  BY Constants DEF Types, SerialInv
<1>3. \A g \in Handlers : g # h => pc[g] = "idle"
  BY OneRequest DEF DeleteCount, DeleteFails, CommitFails, DeductDone, DeductBounded, PatchLoad, DeleteLoad, GetLoad,
               DeductSkip, LinkLookup, DeductLoad, DeductRead, Adjust
<1>4. UNCHANGED <<item, qty, booked, clamped, cache>>
  BY <1>1 DEF Still, stock
<1>5. Ledger'
  BY <1>2, <1>4 DEF Ledger
<1>6. faults' = faults \/ faults' = faults + 1
  BY DEF DeleteCount, DeleteFails, CommitFails, DeductDone, DeductBounded, PatchLoad, DeleteLoad, GetLoad,
         DeductSkip, LinkLookup, DeductLoad, DeductRead, Adjust, AdjustRead, Read, Fault
<1>7. pc[h] \notin {"committed", "patched"}
  BY DEF DeleteCount, DeleteFails, CommitFails, DeductDone, DeductBounded, PatchLoad, DeleteLoad, GetLoad,
         DeductSkip, LinkLookup, DeductLoad, DeductRead, Adjust, MayStart
<1>8. faults' = 0 => CacheInv'
  <2>1. faults' = 0 => faults = 0
    BY <1>2, <1>6
  <2>2. \A g \in Handlers : pc[g] \notin {"committed", "patched"}
    BY <1>3, <1>7
  <2> QED
    BY <1>2, <1>4, <2>1, <2>2 DEF CacheInv
<1>9. SerialHandler(h)'
  <2>1. ASSUME NEW i \in Items, GetLoad(h, i) PROVE SerialHandler(h)'
    <3>1. qty[i] \in 0..MaxQty
      BY <1>2 DEF Rows
    <3>2. pc'[h] = "fill" /\ job'[h] = JobOn(i, None, qty[i]) /\ item[i] = "live"
      BY <1>2, <2>1 DEF GetLoad, Goto, Locals
    <3>3. job'[h].item = i /\ job'[h].new = qty[i]
      BY <3>1, <3>2, NewJobs
    <3> QED
      BY <1>4, <3>2, <3>3 DEF SerialHandler
  <2>2. ASSUME NEW i \in Items, DeductRead(h, i) \/ \E d \in Deltas : Adjust(h, i, d)
        PROVE  SerialHandler(h)'
    <3>1. PICK d \in Int, n \in Int, b \in {"idle", "deduct"} : Read(h, i, d, n, b)
      <4>1. todo[h][i] \in Nat /\ qty[i] \in Int
        BY <1>2, Constants DEF Rows, Locals, TodoType
      <4>2. -todo[h][i] \in Int /\ Floor(qty[i] - todo[h][i]) \in Int /\ \A d \in Deltas : d \in Int /\ qty[i] + d \in Int
        BY <4>1, Constants DEF Floor
      <4> QED
        BY <2>2, <4>2 DEF DeductRead, Adjust, AdjustRead
    <3>2. PICK j : /\ j = [item |-> i, menu |-> None, delta |-> d, new |-> n, short |-> n - (qty[i] + d),
                           point |-> point[i], move |-> moves', back |-> b]
                   /\ job' = [job EXCEPT ![h] = j] /\ pc' = [pc EXCEPT ![h] = "write"]
      BY <3>1 DEF Read, Goto
    <3>3. job'[h].item = i /\ job'[h].new = n /\ job'[h].delta = d /\ job'[h].short = n - (qty[i] + d)
      BY <1>2, <3>2 DEF Locals
    <3>4. qty[i] \in Int /\ pc'[h] = "write"
      BY <1>2, <3>2, Constants DEF Rows, Locals
    <3>5. n = qty[i] + d + (n - (qty[i] + d))
      BY <3>1, <3>4
    <3> QED
      BY <1>4, <3>3, <3>4, <3>5 DEF SerialHandler
  <2>3. ASSUME Return(h) PROVE SerialHandler(h)'
    <3>1. pc'[h] = job[h].back /\ job[h].back \in {"idle", "deduct"}
      BY <1>2, <2>3 DEF Return, Goto, Locals, JobType
    <3> QED
      BY <3>1 DEF SerialHandler
  <2>4. ASSUME NEW step \in {"patch", "count", "delete", "link", "idle", "deduct"}, Goto(h, step)
        PROVE SerialHandler(h)'
    BY <1>2, <2>4 DEF Goto, Locals, SerialHandler
  <2>5. ASSUME NEW i \in Items, DeductSkip(h, i) PROVE SerialHandler(h)'
    BY <1>4, <2>5 DEF DeductSkip, SerialHandler
  <2> QED
    BY <2>1, <2>2, <2>3, <2>4, <2>5
    DEF DeleteCount, DeleteFails, CommitFails, DeductDone, DeductBounded, PatchLoad, DeleteLoad, Hold, LinkLookup, DeductLoad
<1> QED
  BY <1>1, <1>3, <1>5, <1>8, <1>9, SerialStep DEF Copied

(* Writing keeps it: quantity and movement change together. *)
LEMMA SerialWrites ==
    ASSUME Types, SerialInv, ~overlap, NEW h \in Handlers,
           \/ Commit(h) \/ PatchSave(h) \/ DeleteRow(h) \/ GetFill(h) \/ LinkCreate(h) \/ Settle(h)
    PROVE  SerialInv'
<1>1. Types' /\ Only(h)
  BY WriteSteps, SettleStep
<1>2. /\ Rows /\ Locals /\ SerialHandler(h) /\ HandlerInv(h) /\ Ledger /\ (faults = 0 => CacheInv) /\ faults \in Nat
      /\ None \notin Items
  BY Constants DEF Types, SerialInv
<1>3. \A g \in Handlers : g # h => pc[g] = "idle"
  BY OneRequest DEF Commit, PatchSave, DeleteRow, GetFill, LinkCreate, Settle
<1>4. PICK i \in Items : i = job[h].item
  BY <1>2 DEF Commit, PatchSave, DeleteRow, GetFill, LinkCreate, Settle, HandlerInv, Holding, Locals, JobType
<1>5. faults' = 0 => faults = 0 /\ faults' = faults
  BY <1>2 DEF Commit, PatchSave, DeleteRow, GetFill, LinkCreate, Settle, Fault
<1>6. SerialHandler(h)'
  <2>1. pc'[h] \in {"committed", "patched", "idle", "deduct"}
    BY <1>2 DEF Commit, PatchSave, DeleteRow, GetFill, LinkCreate, Settle, Return, Goto, Locals, JobType
  <2> QED
    BY <2>1 DEF SerialHandler
<1>7. Ledger'
  <2>1. CASE Commit(h)
    <3>1. /\ item' = item
          /\ booked' = [booked EXCEPT ![i] = booked[i] + job[h].delta]
          /\ clamped' = [clamped EXCEPT ![i] = clamped[i] + job[h].short]
          /\ item[i] = "live" => qty' = [qty EXCEPT ![i] = job[h].new] /\ job[h].new = qty[i] + job[h].delta + job[h].short
          /\ item[i] # "live" => qty' = qty
          /\ item[i] # "unborn"
      BY <1>2, <1>4, <2>1 DEF Commit, Written, SerialHandler, HandlerInv, Holding
    <3>2. ASSUME NEW k \in Items, k # i
          PROVE  qty'[k] = qty[k] /\ booked'[k] = booked[k] /\ clamped'[k] = clamped[k]
      BY <1>2, <3>1, <3>2 DEF Rows
    <3>3. item[i] = "live" => qty'[i] = booked'[i] + clamped'[i]
      <4>1. /\ qty[i] \in Int /\ booked[i] \in Int /\ clamped[i] \in Int
            /\ job[h].delta \in Int /\ job[h].short \in Int
        BY <1>2, Constants DEF Rows, Locals, JobType
      <4>2. item[i] = "live" => qty[i] = booked[i] + clamped[i]
        BY <1>2 DEF Ledger
      <4>3. booked'[i] = booked[i] + job[h].delta /\ clamped'[i] = clamped[i] + job[h].short
        BY <1>2, <3>1 DEF Rows
      <4>4. item[i] = "live" => qty'[i] = qty[i] + job[h].delta + job[h].short
        BY <1>2, <3>1 DEF Rows
      <4> QED
        BY <4>1, <4>2, <4>3, <4>4
    <3> QED
      BY <1>2, <3>1, <3>2, <3>3 DEF Ledger
  <2>2. CASE DeleteRow(h)
    <3>1. /\ item' = [item EXCEPT ![i] = "deleted"] /\ qty' = [qty EXCEPT ![i] = 0]
          /\ UNCHANGED <<booked, clamped>>
      BY <1>4, <2>2 DEF DeleteRow
    <3> QED
      BY <1>2, <3>1 DEF Rows, Ledger
  <2>3. CASE PatchSave(h) \/ GetFill(h) \/ LinkCreate(h) \/ Settle(h)
    <3>1. UNCHANGED <<item, qty, booked, clamped>>
      BY <2>3 DEF PatchSave, GetFill, LinkCreate, Settle, stock
    <3> QED
      BY <1>2, <3>1 DEF Ledger
  <2> QED
    BY <2>1, <2>2, <2>3
<1>8. ASSUME faults' = 0 PROVE CacheInv'
  <2>1. faults = 0 /\ CacheInv
    BY <1>2, <1>5, <1>8
  <2>2. ASSUME NEW k \in Items, k # i, cache'[k] # None
        PROVE  item'[k] = "live" /\ cache'[k] = qty'[k]
    <3>1. cache'[k] = cache[k] /\ qty'[k] = qty[k] /\ item'[k] = item[k]
      BY <1>2, <1>4, <2>2 DEF Rows, Commit, Written, PatchSave, DeleteRow, GetFill, LinkCreate, Settle, stock
    <3>2. \A g \in Handlers : pc[g] \in {"committed", "patched"} => job[g].item # k
      BY <1>3, <1>4, <2>2
    <3> QED
      BY <2>1, <2>2, <3>1, <3>2 DEF CacheInv
  <2>3. CASE Commit(h) \/ PatchSave(h) \/ DeleteRow(h)
    <3>1. pc'[h] \in {"committed", "patched"} /\ job'[h].item = i
      BY <1>2, <1>4, <2>3 DEF Commit, PatchSave, DeleteRow, Goto, Locals, locals
    <3> QED
      BY <2>2, <3>1 DEF CacheInv
  <2>4. CASE GetFill(h)
    <3>1. cache'[i] = job[h].new /\ item'[i] = "live" /\ qty'[i] = job[h].new
      BY <1>2, <1>4, <2>4 DEF GetFill, SerialHandler, Rows, stock
    <3> QED
      BY <2>2, <3>1 DEF CacheInv
  <2>5. CASE LinkCreate(h)
    <3>1. cache'[i] = cache[i] /\ item'[i] = item[i] /\ qty'[i] = qty[i]
      BY <2>5 DEF LinkCreate
    <3>2. \A g \in Handlers : pc[g] \notin {"committed", "patched"}
      BY <1>3, <2>5 DEF LinkCreate
    <3>3. cache'[i] # None => item'[i] = "live" /\ cache'[i] = qty'[i]
      BY <2>1, <3>1, <3>2 DEF CacheInv
    <3> QED
      BY <2>2, <3>3 DEF CacheInv
  <2>6. CASE Settle(h)
    <3>1. cache' = [cache EXCEPT ![i] = None]
      BY <1>2, <1>4, <1>8, <2>6 DEF Settle, Fault
    <3>2. cache'[i] = None
      BY <1>2, <3>1 DEF Rows
    <3> QED
      BY <2>2, <3>2 DEF CacheInv
  <2> QED
    BY <2>3, <2>4, <2>5, <2>6
<1> QED
  BY <1>1, <1>3, <1>6, <1>7, <1>8, SerialStep

(* Creating an item keeps it. *)
LEMMA SerialCreate ==
    ASSUME Types, SerialInv, ~overlap, NEW h \in Handlers, NEW i \in Items, NEW q \in Openings, NEW p \in Points,
           CreateItem(h, i, q, p)
    PROVE  SerialInv'
<1>1. Types' /\ Only(h)
  BY CreateItemStep
<1>2. /\ Rows /\ Locals /\ Ledger /\ (faults = 0 => CacheInv) /\ q \in Int
      /\ pc[h] = "idle" /\ item[i] = "unborn"
  BY Constants DEF Types, SerialInv, CreateItem, MayStart
<1>3. \A g \in Handlers : g # h => pc[g] = "idle"
  BY OneRequest DEF CreateItem
<1>4. /\ item' = [item EXCEPT ![i] = "live"] /\ qty' = [qty EXCEPT ![i] = q] /\ booked' = [booked EXCEPT ![i] = q]
      /\ UNCHANGED <<clamped, cache, faults>>
  BY DEF CreateItem
<1>5. pc'[h] = "committed" /\ job'[h].item = i
  <2>1. PICK j : /\ j = [item |-> i, menu |-> None, delta |-> 0, new |-> q, short |-> 0, point |-> p,
                        move |-> moves', back |-> "idle"]
                 /\ job' = [job EXCEPT ![h] = j]
    BY DEF CreateItem
  <2>2. job'[h].item = i
    BY <1>2, <2>1 DEF Locals
  <2> QED
    BY <1>2, <2>2 DEF CreateItem, Goto, Locals
<1>6. Ledger'
  <2>1. clamped'[i] = 0 /\ qty'[i] = q /\ booked'[i] = q /\ item'[i] = "live"
    BY <1>2, <1>4 DEF Ledger, Rows
  <2>2. \A k \in Items : k # i => /\ item'[k] = item[k] /\ qty'[k] = qty[k]
                                  /\ booked'[k] = booked[k] /\ clamped'[k] = clamped[k]
    BY <1>2, <1>4 DEF Rows
  <2> QED
    BY <1>2, <2>1, <2>2 DEF Ledger
<1>7. faults' = 0 => CacheInv'
  <2>1. \A g \in Handlers : pc[g] = "idle"
    BY <1>2, <1>3
  <2>2. \A k \in Items : k # i => item'[k] = item[k] /\ qty'[k] = qty[k] /\ cache'[k] = cache[k]
    BY <1>2, <1>4 DEF Rows
  <2> QED
    BY <1>2, <1>4, <1>5, <2>1, <2>2 DEF CacheInv
<1> QED
  BY <1>1, <1>3, <1>5, <1>6, <1>7, SerialStep DEF SerialHandler

(* Goroutines and expiry keep it. *)
LEMMA SerialOthers ==
    ASSUME Types, SerialInv, ~overlap,
           \/ CheckLowStock
           \/ \E i \in Items : CacheExpires(i) \/ DebounceExpires(i)
           \/ \E m \in MenuItems, i \in Items : DeleteLink(m, i)
           \/ UNCHANGED inventory
    PROVE  SerialInv'
<1>1. Rows /\ UNCHANGED <<overlap, item, qty, point, booked, clamped, pc, job, todo, faults>>
  BY OtherSteps DEF Types
<1>2. \A i \in Items : cache'[i] = cache[i] \/ cache'[i] = None
  BY <1>1 DEF Rows, CheckLowStock, CacheExpires, DebounceExpires, DeleteLink, inventory
<1>3. CacheInv => CacheInv'
  BY <1>1, <1>2 DEF CacheInv
<1>4. OneBusy' /\ Ledger' /\ \A h \in Handlers : SerialHandler(h)'
  BY <1>1 DEF SerialInv, OneBusy, Ledger, SerialHandler
<1> QED
  BY <1>1, <1>3, <1>4 DEF SerialInv

(* A crash keeps the ledger; the cache is then no longer promised. *)
LEMMA SerialCrash ==
    ASSUME Types, SerialInv, ~overlap, NEW h \in Handlers, Crash(h)
    PROVE  SerialInv'
<1>1. Only(h) /\ \A g \in Handlers : g # h => pc[g] = "idle"
  BY CrashStep, OneRequest DEF Crash
<1>2. Ledger' /\ faults' # 0
  BY Constants DEF Types, SerialInv, Ledger, Crash, Fault, stock
<1>3. pc'[h] = "idle"
  BY DEF Types, Locals, Crash, Goto
<1> QED
  BY <1>1, <1>2, <1>3, SerialStep DEF SerialHandler

(* Every step keeps the serial invariant. *)
LEMMA SerialNext == ASSUME Types, SerialInv, [InventoryNext]_inventory PROVE SerialInv'
<1>1. overlap' = overlap
  <2>1. ASSUME NEW h \in Handlers,
               \/ Commit(h) \/ CommitFails(h) \/ Settle(h) \/ DeductDone(h) \/ DeductBounded(h)
               \/ DeleteCount(h) \/ DeleteRow(h) \/ DeleteFails(h) \/ PatchSave(h) \/ GetFill(h) \/ LinkCreate(h)
               \/ Crash(h) \/ Refused(h)
        PROVE  overlap' = overlap
    BY <2>1 DEF Commit, CommitFails, Settle, DeductDone, DeductBounded, DeleteCount, DeleteRow, DeleteFails, PatchSave,
                GetFill, LinkCreate, Crash, Refused, inventory
  <2>2. ASSUME NEW h \in Handlers, NEW i \in Items,
               \/ DeductRead(h, i) \/ DeductSkip(h, i) \/ DeleteLoad(h, i) \/ PatchLoad(h, i) \/ GetLoad(h, i)
               \/ \E d \in Deltas : Adjust(h, i, d)
               \/ \E q \in Openings, p \in Points : CreateItem(h, i, q, p)
               \/ \E m \in MenuItems : LinkLookup(h, m, i)
        PROVE  overlap' = overlap
    BY <2>2 DEF DeductRead, DeductSkip, DeleteLoad, PatchLoad, GetLoad, Adjust, AdjustRead, Read, CreateItem, LinkLookup
  <2>3. ASSUME NEW h \in Handlers, NEW order, DeductLoad(h, order) PROVE overlap' = overlap
    BY <2>3 DEF DeductLoad
  <2>4. CASE CheckLowStock \/ (\E i \in Items : CacheExpires(i) \/ DebounceExpires(i))
             \/ (\E m \in MenuItems, i \in Items : DeleteLink(m, i)) \/ UNCHANGED inventory
    BY <2>4, OtherSteps
  <2> QED
    BY <2>1, <2>2, <2>3, <2>4 DEF InventoryNext, MovementStep, DeletionStep
<1>2. CASE overlap
  BY <1>1, <1>2 DEF SerialInv
<1>3. CASE ~overlap
  <2>1. ASSUME MovementStep PROVE SerialInv'
    BY <1>3, <2>1, SerialLoads, SerialWrites, SerialCreate DEF MovementStep
  <2>2. ASSUME DeletionStep PROVE SerialInv'
    BY <1>3, <2>2, SerialLoads, SerialWrites DEF DeletionStep
  <2>3. ASSUME NEW h \in Handlers,
               \/ PatchSave(h) \/ GetFill(h) \/ LinkCreate(h) \/ Crash(h)
               \/ \E i \in Items : PatchLoad(h, i) \/ GetLoad(h, i)
               \/ \E m \in MenuItems, i \in Items : LinkLookup(h, m, i)
        PROVE  SerialInv'
    BY <1>3, <2>3, SerialLoads, SerialWrites, SerialCrash
  <2> QED
    BY <1>3, <2>1, <2>2, <2>3, SerialOthers DEF InventoryNext, Refused
<1> QED
  BY <1>2, <1>3

(* The types of rows, caches, goroutines and copies. *)
THEOREM InventoryTypes == InventorySpec => []InventoryTypeOK
<1>1. Types => InventoryTypeOK
  <2> SUFFICES ASSUME Types PROVE InventoryTypeOK
    OBVIOUS
  <2>1. \A q \in 0..MaxQty : q \in Int
    BY Constants
  <2>2. Rows /\ Notices /\ Locals /\ moves \in 0..MaxMoves /\ faults \in 0..MaxFaults
    BY DEF Types
  <2>3. qty \in [Items -> Int] /\ DOMAIN pc = Handlers
    BY <2>1, <2>2 DEF Rows, Locals
  <2>4. \A h \in Handlers : /\ job[h].item \in Items \cup {None}
                            /\ job[h].item # None <=> pc[h] \in Holding
                            /\ job[h].new \in 0..MaxQty
    BY <2>2 DEF Types, Locals, JobType, HandlerInv
  <2> QED
    BY <2>2, <2>3, <2>4 DEF InventoryTypeOK, Rows, Notices, Locals, TodoType
<1> QED
  BY TypesInit, TypesStep, <1>1, PTL DEF InventorySpec

(* When requests take turns, movements sum up to quantities whatever fails  *)
(* and crashes in between, and a cached item is the stored one. *)
THEOREM LedgerHolds == InventorySpec => []LedgerSound
<1>1. Types /\ SerialInv => LedgerSound
  <2> SUFFICES ASSUME Types, SerialInv PROVE LedgerSound
    OBVIOUS
  <2>1. DOMAIN item = Items /\ DOMAIN cache = Items
    BY DEF Types, Rows
  <2>2. SerialLedgerSums
    BY <2>1 DEF SerialLedgerSums, SerialInv, Ledger, Live
  <2>3. SerialCacheFresh
    BY <2>1 DEF SerialCacheFresh, SerialInv, CacheInv, Live, Cached
  <2> QED
    BY <2>2, <2>3 DEF LedgerSound
<1>2. Types /\ SerialInv /\ [InventoryNext]_inventory => SerialInv'
  BY SerialNext
<1> QED
  BY TypesInit, TypesStep, SerialInit, <1>1, <1>2, PTL DEF InventorySpec

-----------------------------------------------------------------------------
(* Receipts. *)

(* An entry of a receipt. *)
Entry == [line : Items, quantity : 0..Ordered]

(* The types the argument needs. *)
ReceiptType ==
    /\ DOMAIN pc = Handlers
    /\ DOMAIN job = Handlers
    /\ \A h \in Handlers : job[h].back \in {"idle", "deduct", "receive"}
    /\ \A h \in Handlers : pc[h] = "lines" => po[h] \in PurchaseOrders
    /\ \A h \in Handlers : pc[h] = "stock" => entries[h] # <<>>
    /\ DOMAIN po = Handlers
    /\ received \in [PurchaseOrders -> [Items -> Nat]]
    /\ lineMem \in [Handlers -> [Items -> Nat]]
    /\ entries \in [Handlers -> Seq(Entry)]

(* The entries still to be saved; at "stock" the first one has been. *)
Unsaved(h) == (IF pc[h] = "stock" THEN 2 ELSE 1)..Len(entries[h])

(* What a receipt has left to write fits into its copies of the lines, *)
(* and names each line once. *)
EntriesFit(h) ==
    pc[h] # "lines" =>
        /\ \A n \in Unsaved(h) : lineMem[h][entries[h][n].line] + entries[h][n].quantity <= Ordered
        /\ ~Repeats(entries[h])

(* The inductive invariant. *)
ReceiptInv ==
    /\ ReceiptType
    /\ ReceivedWithinOrder
    /\ ~repeated => \A h \in Handlers : EntriesFit(h)

-----------------------------------------------------------------------------
(* A receipt is a sequence of entries. *)
LEMMA NamedEntries == ASSUME NEW named \in Receipts PROVE named \in Seq(Entry)
<1>1. PICK n \in 0..MaxEntries : named \in [1..n -> Entry]
  BY DEF Receipts, Entry
<1>2. n \in Nat
  BY PurchaseOrderAssumption
<1> QED
  BY <1>1, <1>2, SeqDef

(* Dropping the first entry keeps the others apart. *)
LEMMA TailEntries ==
    ASSUME NEW s \in Seq(Entry), s # <<>>
    PROVE  /\ Head(s) \in Entry /\ Head(s) = s[1] /\ 1 \in DOMAIN s
           /\ Tail(s) \in Seq(Entry) /\ Len(Tail(s)) = Len(s) - 1
           /\ \A n \in 1..Len(Tail(s)) : n + 1 \in 1..Len(s) /\ Tail(s)[n] = s[n + 1]
           /\ ~Repeats(s) => ~Repeats(Tail(s))
<1>1. /\ Head(s) \in Entry /\ Head(s) = s[1] /\ Len(s) \in Nat /\ Len(s) >= 1 /\ DOMAIN s = 1..Len(s)
      /\ Tail(s) \in Seq(Entry) /\ Len(Tail(s)) = Len(s) - 1 /\ DOMAIN Tail(s) = 1..Len(Tail(s))
      /\ \A n \in 1..Len(Tail(s)) : n + 1 \in 1..Len(s) /\ Tail(s)[n] = s[n + 1]
  OBVIOUS
<1>2. ASSUME Repeats(Tail(s)) PROVE Repeats(s)
  <2>1. PICK m \in 1..Len(Tail(s)), n \in 1..Len(Tail(s)) : m # n /\ Tail(s)[m].line = Tail(s)[n].line
    BY <1>1, <1>2 DEF Repeats
  <2>2. m + 1 \in DOMAIN s /\ n + 1 \in DOMAIN s /\ m + 1 # n + 1 /\ s[m + 1].line = s[n + 1].line
    BY <1>1, <2>1
  <2> QED
    BY <2>2 DEF Repeats
<1> QED
  BY <1>1, <1>2

(* Inventory's steps move no handler in or out of a receipt's own steps,    *)
(* except back to the loop. *)
LEMMA StockStepOutside ==
    ASSUME ReceiptType, StockStep
    PROVE  /\ DOMAIN pc' = Handlers /\ DOMAIN job' = Handlers
           /\ \A h \in Handlers : job'[h].back \in {"idle", "deduct", "receive"}
           /\ \A h \in Handlers :
                pc'[h] = pc[h] \/ (pc[h] \notin {"lines", "stock"} /\ pc'[h] \notin {"lines", "stock"})
<1> DEFINE Outside(g) ==
        \/ UNCHANGED <<pc, job>>
        \/ /\ pc[g] \notin {"lines", "stock"}
           /\ pc' = [pc EXCEPT ![g] = pc'[g]] /\ pc'[g] \notin {"lines", "stock"}
           /\ \/ job' = job
              \/ job' = [job EXCEPT ![g] = job'[g]] /\ job'[g].back \in {"idle", "deduct", "receive"}
<1>1. NoJob.back = "idle"
  BY DEF NoJob, JobOn
<1> USE <1>1 DEF ReceiptType
<1>2. ASSUME NEW g \in Handlers, Commit(g) \/ DeductDone(g) \/ DeductBounded(g)
      PROVE  Outside(g)
  BY <1>2 DEF Commit, DeductDone, DeductBounded, Goto, locals
<1>3. ASSUME NEW g \in Handlers, CommitFails(g) \/ Settle(g) \/ DeleteFails(g)
      PROVE  Outside(g)
  BY <1>3 DEF CommitFails, Settle, DeleteFails, Goto, Return
<1>4. ASSUME NEW g \in Handlers, DeleteCount(g) \/ DeleteRow(g)
      PROVE  Outside(g)
  BY <1>4 DEF DeleteCount, DeleteRow, Goto, Return, locals
<1>5. ASSUME NEW g \in Handlers, NEW i \in Items, DeductRead(g, i) \/ DeductSkip(g, i)
      PROVE  Outside(g)
  BY <1>5 DEF DeductRead, DeductSkip, Read, Goto
<1>6. ASSUME NEW g \in Handlers, NEW order, DeductLoad(g, order)
      PROVE  Outside(g)
  BY <1>6 DEF DeductLoad, MayStart, Goto
<1>7. ASSUME NEW g \in Handlers, NEW i, NEW d, Adjust(g, i, d)
      PROVE  Outside(g)
  BY <1>7 DEF Adjust, AdjustRead, Read, MayStart, Goto
<1>8. ASSUME NEW g \in Handlers, NEW i, NEW q, NEW p, CreateItem(g, i, q, p)
      PROVE  Outside(g)
  BY <1>8 DEF CreateItem, MayStart, Goto
<1>9. ASSUME NEW g \in Handlers, NEW i, DeleteLoad(g, i)
      PROVE  Outside(g)
  <2>1. JobOn(i, None, 0).back = "idle"
    BY DEF JobOn
  <2>2. /\ job' = [job EXCEPT ![g] = JobOn(i, None, 0)]
        /\ pc[g] = "idle" /\ pc' = [pc EXCEPT ![g] = "count"]
    BY <1>9 DEF DeleteLoad, Hold, MayStart, Goto
  <2> QED
    BY <2>1, <2>2
<1>10. \E g \in Handlers : Outside(g)
  <2>1. CASE MovementStep
    BY <2>1, <1>2, <1>3, <1>5, <1>6, <1>7, <1>8 DEF MovementStep
  <2>2. CASE DeletionStep
    BY <2>2, <1>3, <1>4, <1>9 DEF DeletionStep
  <2> QED
    BY <2>1, <2>2 DEF StockStep
<1> QED
  BY <1>10

(* The invariant holds initially. *)
LEMMA ReceiptInit == Init => ReceiptInv
<1> SUFFICES ASSUME Init PROVE ReceiptInv
  OBVIOUS
<1>1. ReceiptType
  BY PurchaseOrderAssumption DEF Init, InventoryInit, NoJob, JobOn, NoLines, ReceiptType
<1>2. ReceivedWithinOrder
  BY PurchaseOrderAssumption DEF Init, NoLines, ReceivedWithinOrder
<1>3. \A h \in Handlers : EntriesFit(h)
  BY DEF Init, InventoryInit, EntriesFit, Unsaved, Repeats
<1> QED
  BY <1>1, <1>2, <1>3 DEF ReceiptInv

-----------------------------------------------------------------------------
(* A step of handler h leaves what the others still have to write.          *)
LEMMA OthersFit ==
    ASSUME ReceiptInv, NEW h \in Handlers,
           \A g \in Handlers : g # h => pc'[g] = pc[g] /\ lineMem'[g] = lineMem[g] /\ entries'[g] = entries[g],
           repeated => repeated', ~repeated' => EntriesFit(h)'
    PROVE  ~repeated' => \A g \in Handlers : EntriesFit(g)'
BY DEF ReceiptInv, EntriesFit, Unsaved, Repeats

(* Steps of h that write no line: it keeps its entries or drops them all.   *)
LEMMA NoLineWritten ==
    ASSUME ReceiptInv, NEW h \in Handlers,
           UNCHANGED <<received, repeated>>,
           pc' = [pc EXCEPT ![h] = pc'[h]], pc'[h] \notin {"lines", "stock"},
           job' = job \/ job' = [job EXCEPT ![h] = NoJob],
           po' = po \/ po' = [po EXCEPT ![h] = po'[h]],
           \/ pc[h] \notin {"lines", "stock"} /\ UNCHANGED <<lineMem, entries>>
           \/ /\ lineMem' = [lineMem EXCEPT ![h] = NoLines]
              /\ entries' = [entries EXCEPT ![h] = <<>>]
    PROVE  ReceiptInv'
<1>1. ReceiptType'
  <2>1. /\ DOMAIN pc' = Handlers /\ DOMAIN job' = Handlers /\ DOMAIN po' = Handlers
        /\ received' \in [PurchaseOrders -> [Items -> Nat]]
    BY DEF ReceiptInv, ReceiptType
  <2>2. \A g \in Handlers : job'[g].back \in {"idle", "deduct", "receive"}
    <3>1. NoJob.back = "idle"
      BY DEF NoJob, JobOn
    <3>2. DOMAIN job = Handlers /\ \A g \in Handlers : job[g].back \in {"idle", "deduct", "receive"}
      BY DEF ReceiptInv, ReceiptType
    <3> QED
      BY <3>1, <3>2
  <2>3. NoLines \in [Items -> Nat] /\ <<>> \in Seq(Entry)
    BY DEF NoLines
  <2>4. lineMem' \in [Handlers -> [Items -> Nat]] /\ entries' \in [Handlers -> Seq(Entry)]
    <3>1. lineMem \in [Handlers -> [Items -> Nat]] /\ entries \in [Handlers -> Seq(Entry)]
      BY DEF ReceiptInv, ReceiptType
    <3>2. lineMem' \in [Handlers -> [Items -> Nat]]
      BY <2>3, <3>1
    <3>3. entries' \in [Handlers -> Seq(Entry)]
      BY <2>3, <3>1
    <3> QED
      BY <3>2, <3>3
  <2>5. \A g \in Handlers : g # h => pc'[g] = pc[g] /\ po'[g] = po[g] /\ entries'[g] = entries[g]
    BY DEF ReceiptInv, ReceiptType
  <2>6. /\ \A g \in Handlers : pc'[g] = "lines" => po'[g] \in PurchaseOrders
        /\ \A g \in Handlers : pc'[g] = "stock" => entries'[g] # <<>>
    BY <2>5 DEF ReceiptInv, ReceiptType
  <2> QED
    BY <2>1, <2>2, <2>4, <2>6 DEF ReceiptType
<1>2. ~repeated' => EntriesFit(h)'
  <2>1. CASE pc[h] \notin {"lines", "stock"} /\ UNCHANGED <<lineMem, entries>>
    BY <2>1 DEF ReceiptInv, EntriesFit, Unsaved
  <2>2. CASE entries' = [entries EXCEPT ![h] = <<>>]
    <3>1. entries'[h] = <<>>
      BY <2>2 DEF ReceiptInv, ReceiptType
    <3>2. DOMAIN entries'[h] = {} /\ Len(entries'[h]) = 0
      BY <3>1
    <3> QED
      BY <3>2 DEF EntriesFit, Unsaved, Repeats
  <2> QED
    BY <2>1, <2>2
<1>3. \A g \in Handlers : g # h => pc'[g] = pc[g] /\ lineMem'[g] = lineMem[g] /\ entries'[g] = entries[g]
  BY DEF ReceiptInv, ReceiptType
<1>4. ReceivedWithinOrder'
  BY DEF ReceiptInv, ReceivedWithinOrder
<1> QED
  BY <1>1, <1>2, <1>3, <1>4, OthersFit DEF ReceiptInv

(* Steps of h within a receipt that keep the order: what is to be shown of  *)
(* the entries that are left. *)
LEMMA LinesStep ==
    ASSUME ReceiptInv, NEW h \in Handlers, ReceivedWithinOrder',
           received' \in [PurchaseOrders -> [Items -> Nat]],
           pc' = pc \/ pc' = [pc EXCEPT ![h] = pc'[h]],
           job' = job \/ (job' = [job EXCEPT ![h] = job'[h]] /\ job'[h].back \in {"idle", "deduct", "receive"}),
           po' = po, pc'[h] # "lines", pc'[h] = "stock" => entries'[h] # <<>>,
           lineMem' = [lineMem EXCEPT ![h] = lineMem'[h]], lineMem'[h] \in [Items -> Nat],
           entries' = [entries EXCEPT ![h] = entries'[h]], entries'[h] \in Seq(Entry),
           repeated => repeated', ~repeated' => EntriesFit(h)'
    PROVE  ReceiptInv'
<1>1. /\ DOMAIN pc = Handlers /\ DOMAIN job = Handlers /\ DOMAIN po = Handlers
      /\ \A g \in Handlers : job[g].back \in {"idle", "deduct", "receive"}
      /\ lineMem \in [Handlers -> [Items -> Nat]] /\ entries \in [Handlers -> Seq(Entry)]
  BY DEF ReceiptInv, ReceiptType
<1>2. /\ DOMAIN pc' = Handlers /\ DOMAIN job' = Handlers
      /\ \A g \in Handlers : job'[g].back \in {"idle", "deduct", "receive"}
  BY <1>1
<1>3. lineMem' \in [Handlers -> [Items -> Nat]]
  BY <1>1
<1>4. entries' \in [Handlers -> Seq(Entry)]
  BY <1>1
<1>5. \A g \in Handlers : g # h => pc'[g] = pc[g] /\ lineMem'[g] = lineMem[g] /\ entries'[g] = entries[g]
  BY <1>1
<1>6. ReceiptType'
  BY <1>1, <1>2, <1>3, <1>4, <1>5 DEF ReceiptInv, ReceiptType
<1> QED
  BY <1>5, <1>6, OthersFit DEF ReceiptInv

(* Loading the lines and checking every entry establishes that they fit *)
(* (purchaseOrder.go:387-419). *)
LEMMA ReceiveLinesStep ==
    ASSUME ReceiptInv, NEW h \in Handlers, ReceiveLines(h) PROVE ReceiptInv'
<1>1. /\ DOMAIN pc = Handlers /\ pc[h] = "lines" /\ po[h] \in PurchaseOrders
      /\ lineMem \in [Handlers -> [Items -> Nat]] /\ entries \in [Handlers -> Seq(Entry)]
      /\ received \in [PurchaseOrders -> [Items -> Nat]] /\ received' = received /\ job' = job
  BY DEF ReceiptInv, ReceiptType, ReceiveLines, orders, Elsewhere, locals
<1>2. CASE ~Accepted(po[h], entries[h])
  BY <1>2, NoLineWritten DEF ReceiveLines, Leave, Forget, Goto, orders, Elsewhere, locals, ReceiptInv, ReceiptType
<1>3. CASE Accepted(po[h], entries[h])
  <2>1. /\ pc' = [pc EXCEPT ![h] = "receive"] /\ po' = po /\ entries' = entries
        /\ lineMem' = [lineMem EXCEPT ![h] = received[po[h]]]
        /\ repeated' = (repeated \/ Repeats(entries[h]))
    BY <1>3 DEF ReceiveLines, Goto
  <2>2. /\ pc'[h] = "receive" /\ lineMem'[h] = received[po[h]] /\ lineMem'[h] \in [Items -> Nat]
        /\ entries'[h] = entries[h] /\ DOMAIN entries[h] = 1..Len(entries[h])
    BY <1>1, <2>1
  <2>3. ~repeated' => EntriesFit(h)'
    BY <1>3, <2>1, <2>2 DEF Accepted, EntriesFit, Unsaved, Repeats
  <2>4. entries' = [entries EXCEPT ![h] = entries'[h]] /\ entries'[h] \in Seq(Entry)
    BY <1>1, <2>1
  <2>5. ReceivedWithinOrder'
    BY <1>1, <2>1 DEF ReceiptInv, ReceivedWithinOrder
  <2> QED
    BY <1>1, <2>1, <2>2, <2>3, <2>4, <2>5, LinesStep
<1> QED
  BY <1>2, <1>3

(* Writing one line back uses up its entry. *)
LEMMA ReceiveLineStep ==
    ASSUME ReceiptInv, NEW h \in Handlers, ReceiveLine(h) PROVE ReceiptInv'
<1> DEFINE e == Head(entries[h])
           now == NowReceived(h, e)
<1>1. /\ DOMAIN pc = Handlers /\ pc[h] = "receive" /\ entries[h] # <<>> /\ Ordered \in Nat
      /\ lineMem \in [Handlers -> [Items -> Nat]] /\ entries \in [Handlers -> Seq(Entry)]
      /\ received \in [PurchaseOrders -> [Items -> Nat]] /\ job' = job /\ repeated' = repeated
  BY PurchaseOrderAssumption DEF ReceiptInv, ReceiptType, ReceiveLine, Elsewhere, locals
<1>2. /\ e \in Entry /\ e = entries[h][1] /\ 1 \in DOMAIN entries[h] /\ DOMAIN entries[h] = 1..Len(entries[h])
      /\ Tail(entries[h]) \in Seq(Entry) /\ Len(Tail(entries[h])) = Len(entries[h]) - 1
      /\ \A n \in 1..Len(Tail(entries[h])) :
            n + 1 \in 1..Len(entries[h]) /\ Tail(entries[h])[n] = entries[h][n + 1]
      /\ ~Repeats(entries[h]) => ~Repeats(Tail(entries[h]))
  BY <1>1, TailEntries
<1>3. ~repeated => EntriesFit(h)
  BY DEF ReceiptInv
<1>4. CASE e.quantity = 0
  <2>1. /\ entries' = [entries EXCEPT ![h] = Tail(entries[h])] /\ UNCHANGED <<received, po, lineMem, pc>>
    BY <1>4 DEF ReceiveLine, orders
  <2>2. entries'[h] = Tail(entries[h])
    BY <1>1, <2>1
  <2>3. ~repeated' => EntriesFit(h)'
    BY <1>1, <1>2, <1>3, <2>1, <2>2 DEF EntriesFit, Unsaved
  <2>4. ReceivedWithinOrder'
    BY <1>1, <2>1 DEF ReceiptInv, ReceivedWithinOrder
  <2>5. lineMem' = [lineMem EXCEPT ![h] = lineMem'[h]]
    BY <1>1, <2>1
  <2> QED
    BY <1>1, <1>2, <2>1, <2>2, <2>3, <2>4, <2>5, LinesStep
<1>5. CASE /\ received' = [received EXCEPT ![po[h]][e.line] = now]
           /\ lineMem' = [lineMem EXCEPT ![h][e.line] = now]
           /\ Goto(h, "stock")
           /\ UNCHANGED <<po, entries>>
  <2>1. now = lineMem[h][e.line] + e.quantity /\ now \in Nat /\ e.line \in Items
    BY <1>1, <1>2 DEF NowReceived, Entry
  <2>2. ~repeated => now <= Ordered
    BY <1>1, <1>2, <1>3, <2>1 DEF EntriesFit, Unsaved
  <2>3. /\ received' \in [PurchaseOrders -> [Items -> Nat]]
        /\ \A p \in PurchaseOrders, i \in Items : received'[p][i] \in {received[p][i], now}
    BY <1>1, <1>5, <2>1
  <2>4. ReceivedWithinOrder'
    BY <1>1, <2>2, <2>3 DEF ReceiptInv, ReceivedWithinOrder
  <2>5. /\ lineMem' = [lineMem EXCEPT ![h] = lineMem'[h]] /\ lineMem'[h] \in [Items -> Nat]
        /\ \A i \in Items : i # e.line => lineMem'[h][i] = lineMem[h][i]
    BY <1>1, <1>5, <2>1
  <2>6. /\ pc' = [pc EXCEPT ![h] = "stock"] /\ pc'[h] = "stock"
        /\ entries' = [entries EXCEPT ![h] = entries'[h]] /\ entries'[h] = entries[h]
    BY <1>1, <1>5 DEF Goto
  <2>7. ASSUME ~repeated PROVE EntriesFit(h)'
    <3>1. ASSUME NEW n \in 2..Len(entries[h])
          PROVE  lineMem'[h][entries[h][n].line] + entries[h][n].quantity <= Ordered
      <4>1. n \in DOMAIN entries[h] /\ n # 1 /\ entries[h][n] \in Entry
        BY <1>1, <1>2
      <4>2. entries[h][n].line # e.line /\ entries[h][n].line \in Items
        BY <1>1, <1>2, <1>3, <2>7, <4>1, ZenonT(60) DEF EntriesFit, Repeats, Entry
      <4>3. lineMem[h][entries[h][n].line] + entries[h][n].quantity <= Ordered
        BY <1>1, <1>2, <1>3, <2>7, <4>1 DEF EntriesFit, Unsaved
      <4> QED
        BY <2>5, <4>2, <4>3
    <3>2. ~Repeats(entries[h])
      BY <1>1, <1>3, <2>7 DEF EntriesFit
    <3> QED
      BY <2>6, <3>1, <3>2 DEF EntriesFit, Unsaved, Repeats
  <2> QED
    BY <1>1, <1>5, <2>3, <2>4, <2>5, <2>6, <2>7, LinesStep
<1>6. CASE Leave(h) /\ UNCHANGED orders
  BY <1>1, <1>6, NoLineWritten DEF Leave, Forget, Goto, orders, ReceiptInv, ReceiptType
<1> QED
  BY <1>1, <1>4, <1>5, <1>6 DEF ReceiveLine

(* ReceiveStock and ReceiveUnstocked drop the entry that has been saved.    *)
LEMMA EntryDone ==
    ASSUME ReceiptInv, NEW h \in Handlers, ReceiveStock(h) \/ ReceiveUnstocked(h) PROVE ReceiptInv'
<1>1. /\ DOMAIN pc = Handlers /\ pc[h] = "stock" /\ entries[h] # <<>> /\ DOMAIN job = Handlers
      /\ lineMem \in [Handlers -> [Items -> Nat]] /\ entries \in [Handlers -> Seq(Entry)]
      /\ received \in [PurchaseOrders -> [Items -> Nat]]
      /\ UNCHANGED <<received, po, lineMem, repeated>>
      /\ entries' = [entries EXCEPT ![h] = Tail(entries[h])]
  BY DEF ReceiptInv, ReceiptType, ReceiveStock, ReceiveUnstocked, orders
<1>2. /\ Tail(entries[h]) \in Seq(Entry) /\ Len(Tail(entries[h])) = Len(entries[h]) - 1 /\ Len(entries[h]) \in Nat
      /\ \A n \in 1..Len(Tail(entries[h])) :
            n + 1 \in 1..Len(entries[h]) /\ Tail(entries[h])[n] = entries[h][n + 1]
      /\ ~Repeats(entries[h]) => ~Repeats(Tail(entries[h]))
  BY <1>1, TailEntries
<1>3. /\ pc' = [pc EXCEPT ![h] = pc'[h]] /\ pc'[h] \in {"write", "receive"}
      /\ job' = job \/ (job' = [job EXCEPT ![h] = job'[h]] /\ job'[h].back \in {"idle", "deduct", "receive"})
  BY <1>1 DEF ReceiveStock, ReceiveUnstocked, AdjustRead, Read, Goto, Elsewhere, locals
<1>4. entries'[h] = Tail(entries[h])
  BY <1>1
<1>5. ASSUME ~repeated PROVE EntriesFit(h)'
  <2>1. EntriesFit(h)
    BY <1>5 DEF ReceiptInv
  <2> QED
    BY <1>1, <1>2, <1>3, <1>4, <2>1 DEF EntriesFit, Unsaved
<1>6. ReceivedWithinOrder' /\ lineMem' = [lineMem EXCEPT ![h] = lineMem'[h]] /\ lineMem'[h] \in [Items -> Nat]
  BY <1>1 DEF ReceiptInv, ReceivedWithinOrder
<1> QED
  BY <1>1, <1>2, <1>3, <1>4, <1>5, <1>6, LinesStep

(* Loading the order starts a receipt. *)
LEMMA ReceiveLoadStep ==
    ASSUME ReceiptInv, NEW h \in Handlers, NEW p \in PurchaseOrders, NEW named \in Receipts,
           ReceiveLoad(h, p, named)
    PROVE  ReceiptInv'
<1>1. /\ DOMAIN pc = Handlers /\ DOMAIN po = Handlers
      /\ lineMem \in [Handlers -> [Items -> Nat]] /\ entries \in [Handlers -> Seq(Entry)]
  BY DEF ReceiptInv, ReceiptType
<1>2. /\ pc' = [pc EXCEPT ![h] = "lines"] /\ po' = [po EXCEPT ![h] = p]
      /\ entries' = [entries EXCEPT ![h] = named]
      /\ UNCHANGED <<received, lineMem, repeated, job>>
  BY DEF ReceiveLoad, Goto, Elsewhere, locals, orders
<1>3. named \in Seq(Entry)
  BY NamedEntries
<1>4. entries' \in [Handlers -> Seq(Entry)]
  BY <1>1, <1>2, <1>3
<1>5. \A g \in Handlers : g # h => pc'[g] = pc[g] /\ po'[g] = po[g] /\ entries'[g] = entries[g]
  BY <1>1, <1>2
<1>6. pc'[h] = "lines" /\ po'[h] = p /\ DOMAIN pc' = Handlers /\ DOMAIN po' = Handlers
  BY <1>1, <1>2
<1>7. ReceiptType'
  BY <1>2, <1>4, <1>5, <1>6 DEF ReceiptInv, ReceiptType
<1>8. EntriesFit(h)' /\ ReceivedWithinOrder'
  BY <1>2, <1>6 DEF EntriesFit, ReceiptInv, ReceivedWithinOrder
<1> QED
  BY <1>2, <1>5, <1>7, <1>8, OthersFit DEF ReceiptInv

(* Every step keeps the invariant. *)
LEMMA ReceiptStep == ReceiptInv /\ [Next]_vars => ReceiptInv'
<1> SUFFICES ASSUME ReceiptInv, [Next]_vars PROVE ReceiptInv'
  OBVIOUS
<1>1. ASSUME UNCHANGED <<pc, job, received, repeated, poLocals>> PROVE ReceiptInv'
  BY <1>1 DEF poLocals, ReceiptInv, ReceiptType, ReceivedWithinOrder, EntriesFit, Unsaved, Repeats
<1>2. CASE StockStep
  <2>1. UNCHANGED <<received, repeated, po, lineMem, entries>>
    BY <1>2 DEF StockStep, orders, poLocals
  <2>2. ReceiptType'
    BY <1>2, <2>1, StockStepOutside DEF ReceiptInv, ReceiptType
  <2>3. ASSUME NEW h \in Handlers, ~repeated PROVE EntriesFit(h)'
    BY <1>2, <2>1, <2>3, StockStepOutside DEF ReceiptInv, EntriesFit, Unsaved
  <2> QED
    BY <2>1, <2>2, <2>3 DEF ReceiptInv, ReceivedWithinOrder
<1>3. ASSUME NEW h \in Handlers, Stop(h) \/ SaveStatus(h) \/ ReceiveEvent(h)
      PROVE  ReceiptInv'
  <2>1. DOMAIN pc = Handlers /\ DOMAIN po = Handlers
    BY DEF ReceiptInv, ReceiptType
  <2>2. CASE Stop(h)
    BY <2>1, <2>2, NoLineWritten DEF Stop, Crash, Forget, Goto, orders
  <2>3. CASE SaveStatus(h)
    BY <2>1, <2>3, NoLineWritten DEF SaveStatus, Leave, Forget, Goto, Elsewhere, locals
  <2>4. CASE ReceiveEvent(h)
    BY <2>1, <2>4, NoLineWritten DEF ReceiveEvent, Leave, Forget, Goto, Elsewhere, locals, orders
  <2> QED
    BY <1>3, <2>2, <2>3, <2>4
<1>4. ASSUME NEW h \in Handlers, NEW p \in PurchaseOrders, NEW e, FireLoad(h, p, e)
      PROVE  ReceiptInv'
  <2>1. DOMAIN pc = Handlers /\ DOMAIN po = Handlers
    BY DEF ReceiptInv, ReceiptType
  <2> QED
    BY <1>4, <2>1, NoLineWritten DEF FireLoad, MayStart, Goto, Elsewhere, locals, orders
<1>5. ASSUME NEW h \in Handlers, NEW p \in PurchaseOrders, NEW is, NEW zero,
             CreatePurchaseOrder(h, p, is, zero)
      PROVE  ReceiptInv'
  BY <1>1, <1>5 DEF CreatePurchaseOrder, inventory, locals
<1>6. ASSUME NEW h \in Handlers, Turned(h) PROVE ReceiptInv'
  BY <1>1, <1>6 DEF Turned, vars, inventory, locals, orders
<1>7. CASE UNCHANGED vars
  BY <1>1, <1>7 DEF vars, inventory, locals, orders
<1> QED
  BY <1>2, <1>3, <1>4, <1>5, <1>6, <1>7, ReceiveLinesStep, ReceiveLineStep, EntryDone, ReceiveLoadStep DEF Next

(* ReceivedWithinOrder: as long as no receipt names a line twice, a line    *)
(* never receives more than was ordered, however receipts overlap, fail or  *)
(* stop half-way (purchaseOrder.go:402-455). *)
THEOREM ReceiptsWithinOrder == Spec => []ReceivedWithinOrder
<1>1. ReceiptInv => ReceivedWithinOrder
  BY DEF ReceiptInv
<1> QED
  BY <1>1, ReceiptInit, ReceiptStep, PTL DEF Spec
-----------------------------------------------------------------------------
(* What receipts that take turns keep true (ReceiptsSound). *)

(* Handler h works on a receipt, in its own steps or within AdjustStock. *)
AtReceipt(h) == pc[h] \in {"lines", "receive", "stock"} \/ job[h].back = "receive"

(* The steps an order has not been received from. *)
Open == {"absent", "draft", "submitted", "cancelled"}

(* Who works on which order, and what a copy of its status can be. *)
PlaceInv(h) ==
    /\ job[h].back = "receive" =>
         pc[h] \in {"write", "committed"} /\ job[h].item \in Items /\ job[h].delta \in Nat
    /\ po[h] \in PurchaseOrders \cup {NoOrder}
    /\ po[h] # NoOrder <=> pc[h] = "save" \/ AtReceipt(h)
    /\ AtReceipt(h) => poMem[h] \in {"approved", "partially_received"}
    /\ Len(entries[h]) <= MaxEntries

(* The types of orders, lines and copies. *)
OrderTypes ==
    /\ DOMAIN po = Handlers
    /\ poMem \in [Handlers -> PurchaseOrderFSM.states \cup {"absent"}]
    /\ poStatus \in [PurchaseOrders -> PurchaseOrderFSM.states \cup {"absent"}]
    /\ lines \in [PurchaseOrders -> SUBSET Items]
    /\ free \subseteq PurchaseOrders
    /\ stocked \in [PurchaseOrders -> [Items -> Nat]]

(* Requests that take turns: one is under way. *)
Alone == ~overlap => \A g, h \in Handlers : pc[g] # "idle" /\ pc[h] # "idle" => g = h

(* An order's status agrees with its lines. *)
Agrees(s, p) ==
    /\ s = "received" => \A i \in lines[p] : received[p][i] >= Ordered
    /\ s \in Open => received[p] = NoLines

(* The copies of the only receipt are the stored rows, and the status it    *)
(* will save agrees with the lines. *)
CopyInv(h) ==
    /\ AtReceipt(h) => poStatus[po[h]] \in {"approved", "partially_received"}
    /\ AtReceipt(h) /\ pc[h] # "lines" => lineMem[h] = received[po[h]]
    /\ pc[h] = "save" => Agrees(poMem[h], po[h])

(* A receipt that has saved a line and not yet booked it. *)
Owes(h) == pc[h] = "stock" \/ (pc[h] = "write" /\ job[h].back = "receive")
OwedLine(h) == IF pc[h] = "stock" THEN entries[h][1].line ELSE job[h].item
OwedQuantity(h) == IF pc[h] = "stock" THEN entries[h][1].quantity ELSE job[h].delta

(* Lines and ledger differ by what the only receipt owes. *)
LedgerInv ==
    /\ (\A h \in Handlers : ~Owes(h)) => stocked = received
    /\ \A h \in Handlers : Owes(h) =>
         \A p \in PurchaseOrders, i \in Items :
            received[p][i] = stocked[p][i] + IF p = po[h] /\ i = OwedLine(h) THEN OwedQuantity(h) ELSE 0

(* The inductive invariant. *)
OrderInv ==
    /\ ReceiptInv
    /\ OrderTypes
    /\ \A h \in Handlers : PlaceInv(h)
    /\ Alone
    /\ ~overlap => /\ \A p \in PurchaseOrders : Agrees(poStatus[p], p)
                   /\ \A h \in Handlers : CopyInv(h)
                   /\ ~lost => LedgerInv

(* The machine of orders, and where its events lead. *)
LEMMA OrderStates ==
    PurchaseOrderFSM.states = {"draft", "submitted", "approved", "partially_received", "received", "cancelled"}
BY DEF PurchaseOrderFSM, Definition

LEMMA OrderMoves ==
    ASSUME NEW s, NEW e, Can(PurchaseOrderFSM, s, e)
    PROVE  /\ Target(PurchaseOrderFSM, s, e) \in PurchaseOrderFSM.states
           /\ e \in {"submit", "approve", "cancel"} =>
                s \in Open /\ Target(PurchaseOrderFSM, s, e) \in {"submitted", "approved", "cancelled"}
<1> DEFINE T == PurchaseOrderFSM.trans
           t == Lookup(T, s, e)
<1>1. PICK u \in T : u[1] = s /\ u[2] = e
  BY DEF Can, CanTransition
<1>2. t \in T /\ t[1] = s /\ t[2] = e
  BY <1>1 DEF Lookup
<1>3. Target(PurchaseOrderFSM, s, e) = t[3]
  BY DEF Target
<1>4. T = {<<"draft", "submit", "submitted">>, <<"submitted", "approve", "approved">>,
           <<"approved", "receive_partial", "partially_received">>,
           <<"approved", "receive_full", "received">>, <<"partially_received", "receive_full", "received">>,
           <<"draft", "cancel", "cancelled">>, <<"submitted", "cancel", "cancelled">>}
  BY DEF PurchaseOrderFSM, Definition, FromEach
<1> HIDE DEF T, t
<1> QED
  BY ONLY <1>2, <1>3, <1>4, OrderStates DEF Open

(* The two events of a receipt. *)
LEMMA ReceiptMoves ==
    /\ \A s \in {"approved", "partially_received"} : Target(PurchaseOrderFSM, s, "receive_full") = "received"
    /\ Target(PurchaseOrderFSM, "approved", "receive_partial") = "partially_received"
<1>1. PurchaseOrderFSM.trans =
          {<<"draft", "submit", "submitted">>, <<"submitted", "approve", "approved">>,
           <<"approved", "receive_partial", "partially_received">>,
           <<"approved", "receive_full", "received">>, <<"partially_received", "receive_full", "received">>,
           <<"draft", "cancel", "cancelled">>, <<"submitted", "cancel", "cancelled">>}
  BY DEF PurchaseOrderFSM, Definition, FromEach
<1>2. ASSUME NEW s \in {"approved", "partially_received"}
      PROVE  Target(PurchaseOrderFSM, s, "receive_full") = "received"
  <2>1. CanTransition(PurchaseOrderFSM.trans, s, "receive_full")
    BY <1>1 DEF CanTransition
  <2> QED
    BY <1>1, <2>1 DEF Target, Lookup, CanTransition
<1>3. Target(PurchaseOrderFSM, "approved", "receive_partial") = "partially_received"
  <2>1. CanTransition(PurchaseOrderFSM.trans, "approved", "receive_partial")
    BY <1>1 DEF CanTransition
  <2> QED
    BY <1>1, <2>1 DEF Target, Lookup, CanTransition
<1> QED
  BY <1>2, <1>3

(* The invariant holds initially. *)
LEMMA OrderInit == Init => OrderInv
<1> SUFFICES ASSUME Init PROVE OrderInv
  OBVIOUS
<1>1. /\ pc = [h \in Handlers |-> "idle"] /\ \A h \in Handlers : job[h].back = "idle"
      /\ po = [h \in Handlers |-> NoOrder] /\ poMem = [h \in Handlers |-> "absent"]
      /\ entries = [h \in Handlers |-> <<>>]
      /\ poStatus = [p \in PurchaseOrders |-> "absent"] /\ lines = [p \in PurchaseOrders |-> {}]
      /\ free = {} /\ received = [p \in PurchaseOrders |-> NoLines] /\ stocked = received
  BY DEF Init, InventoryInit, NoJob, JobOn
<1>2. NoLines \in [Items -> Nat]
  BY DEF NoLines
<1>3. OrderTypes
  BY <1>1, <1>2 DEF OrderTypes
<1>4. \A h \in Handlers : PlaceInv(h)
  BY <1>1, PurchaseOrderAssumption DEF PlaceInv, AtReceipt
<1>5. Alone /\ LedgerInv /\ \A h \in Handlers : CopyInv(h)
  BY <1>1 DEF Alone, LedgerInv, CopyInv, AtReceipt, Owes
<1>6. \A p \in PurchaseOrders : Agrees(poStatus[p], p)
  BY <1>1 DEF Agrees
<1> QED
  BY <1>3, <1>4, <1>5, <1>6, ReceiptInit DEF OrderInv

(* What one handler's step leaves to be shown: the others wait while it     *)
(* runs alone, and keep their copies. *)
OthersKeep(h) ==
    \A g \in Handlers : g # h =>
        /\ pc'[g] = pc[g] /\ job'[g] = job[g] /\ po'[g] = po[g] /\ poMem'[g] = poMem[g]
        /\ lineMem'[g] = lineMem[g] /\ entries'[g] = entries[g]

(* The lines and the ledger, when no other handler owes. *)
LedgerOf(h) ==
    /\ ~Owes(h) => stocked = received
    /\ Owes(h) =>
         \A p \in PurchaseOrders, i \in Items :
            received[p][i] = stocked[p][i] + IF p = po[h] /\ i = OwedLine(h) THEN OwedQuantity(h) ELSE 0

LEMMA OwnStep ==
    ASSUME OrderInv, ReceiptInv', NEW h \in Handlers, overlap' = overlap,
           pc[h] = "idle" => MayStart(h), OthersKeep(h),
           OrderTypes', PlaceInv(h)',
           ~overlap => (\A p \in PurchaseOrders : Agrees(poStatus[p], p)') /\ CopyInv(h)' /\ (~lost' => LedgerOf(h)')
    PROVE  OrderInv'
<1>1. \A g \in Handlers : PlaceInv(g)'
  <2>1. ASSUME NEW g \in Handlers, g # h PROVE PlaceInv(g)'
    BY <2>1 DEF OrderInv, PlaceInv, AtReceipt, OthersKeep
  <2> QED
    BY <2>1
<1>2. ~overlap => \A g \in Handlers : g # h => pc[g] = "idle" /\ pc'[g] = "idle"
  BY DEF OrderInv, Alone, MayStart, OthersKeep
<1>3. Alone'
  BY <1>2 DEF Alone
<1>4. ASSUME ~overlap, NEW g \in Handlers, g # h PROVE CopyInv(g)' /\ ~Owes(g)'
  BY <1>1, <1>2, <1>4 DEF CopyInv, AtReceipt, Owes, PlaceInv
<1>5. ~overlap /\ ~lost' => LedgerInv'
  <2>1. CASE ~overlap /\ ~lost'
    <3>1. LedgerOf(h)'
      BY <2>1
    <3>2. (\A g \in Handlers : ~Owes(g)') => stocked' = received'
      BY <3>1 DEF LedgerOf
    <3>3. \A g \in Handlers : Owes(g)' => g = h
      BY <1>4, <2>1
    <3> QED
      BY <3>1, <3>2, <3>3 DEF LedgerOf, LedgerInv
  <2> QED
    BY <2>1
<1> QED
  BY <1>1, <1>3, <1>4, <1>5 DEF OrderInv

(* Alone, a handler that is not idle, or may start, finds nobody owing: the *)
(* ledger is the one of that handler. *)
LEMMA LedgerAlone ==
    ASSUME OrderInv, NEW h \in Handlers, ~overlap, ~lost, pc[h] = "idle" => MayStart(h)
    PROVE  LedgerOf(h)
<1>1. ASSUME NEW g \in Handlers, g # h PROVE ~Owes(g)
  <2>1. pc[g] = "idle"
    BY <1>1 DEF OrderInv, Alone, MayStart
  <2> QED
    BY <2>1 DEF Owes
<1> QED
  BY <1>1 DEF OrderInv, LedgerInv, LedgerOf

-----------------------------------------------------------------------------
(* A step of Inventory: on a movement that is no receipt's, or the commit   *)
(* of a receipt's adjustment, or the return from it. *)
Inside == {"save", "lines", "receive", "stock"}

Quiet(g) ==
    \/ UNCHANGED <<pc, job>>
    \/ /\ pc[g] \notin Inside /\ job[g].back # "receive" /\ (pc[g] = "idle" => MayStart(g))
       /\ pc' = [pc EXCEPT ![g] = pc'[g]] /\ pc'[g] \notin Inside
       /\ job' = job \/ job' = [job EXCEPT ![g] = job'[g]]
       /\ job'[g].back \in {"idle", "deduct"}

Booking(g) ==
    /\ pc[g] = "write" /\ job[g].back = "receive"
    /\ pc' = [pc EXCEPT ![g] = "committed"] /\ job' = job

Ending(g) ==
    /\ pc[g] \in {"write", "committed"} /\ job[g].back = "receive"
    /\ pc' = [pc EXCEPT ![g] = "receive"] /\ job' = [job EXCEPT ![g] = NoJob]

LEMMA StockShape ==
    ASSUME OrderInv, StockStep
    PROVE  overlap' = overlap /\ \E g \in Handlers : Quiet(g) \/ Booking(g) \/ Ending(g)
<1> DEFINE Shaped(g) == overlap' = overlap /\ (Quiet(g) \/ Booking(g) \/ Ending(g))
<1>1. /\ DOMAIN pc = Handlers /\ DOMAIN job = Handlers
      /\ \A h \in Handlers : job[h].back \in {"idle", "deduct", "receive"}
      /\ \A h \in Handlers : job[h].back = "receive" => pc[h] \in {"write", "committed"}
      /\ NoJob.back = "idle"
  BY DEF OrderInv, ReceiptInv, ReceiptType, PlaceInv, NoJob, JobOn
<1>2. ASSUME NEW g \in Handlers, Commit(g) PROVE Shaped(g)
  <2>1. overlap' = overlap /\ pc[g] = "write" /\ pc' = [pc EXCEPT ![g] = "committed"] /\ job' = job
    BY <1>2 DEF Commit, Goto, locals
  <2> QED
    BY ONLY <1>1, <2>1 DEF Quiet, Booking, Inside
<1>3. ASSUME NEW g \in Handlers, CommitFails(g) \/ Settle(g) \/ DeleteFails(g) PROVE Shaped(g)
  <2>1. /\ overlap' = overlap /\ pc[g] \in {"write", "committed", "patched", "delete"}
        /\ pc' = [pc EXCEPT ![g] = job[g].back] /\ job' = [job EXCEPT ![g] = NoJob]
    BY <1>3 DEF CommitFails, Settle, DeleteFails, Goto, Return
  <2> QED
    BY ONLY <1>1, <2>1, g \in Handlers DEF Quiet, Ending, Inside
<1>4. ASSUME NEW g \in Handlers, DeductDone(g) \/ DeductBounded(g) PROVE Shaped(g)
  <2>1. overlap' = overlap /\ pc[g] = "deduct" /\ pc' = [pc EXCEPT ![g] = "idle"] /\ job' = job
    BY <1>4 DEF DeductDone, DeductBounded, Goto, locals
  <2> QED
    BY ONLY <1>1, <2>1, g \in Handlers DEF Quiet, Inside
<1>5. ASSUME NEW g \in Handlers, DeleteCount(g) \/ DeleteRow(g) PROVE Shaped(g)
  <2>1. /\ overlap' = overlap /\ pc[g] \in {"count", "delete"}
        /\ \/ pc' \in {[pc EXCEPT ![g] = "delete"], [pc EXCEPT ![g] = "patched"]} /\ job' = job
           \/ pc' = [pc EXCEPT ![g] = job[g].back] /\ job' = [job EXCEPT ![g] = NoJob]
    BY <1>5 DEF DeleteCount, DeleteRow, Goto, Return, locals
  <2> QED
    BY ONLY <1>1, <2>1, g \in Handlers DEF Quiet, Inside
<1>6. ASSUME NEW g \in Handlers, NEW i \in Items, DeductSkip(g, i) PROVE Shaped(g)
  BY <1>6 DEF DeductSkip, Quiet
<1>7. ASSUME NEW g \in Handlers, NEW order, DeductLoad(g, order) PROVE Shaped(g)
  <2>1. overlap' = overlap /\ MayStart(g) /\ pc[g] = "idle" /\ pc' = [pc EXCEPT ![g] = "deduct"] /\ job' = job
    BY <1>7 DEF DeductLoad, MayStart, Goto
  <2> QED
    BY ONLY <1>1, <2>1, g \in Handlers DEF Quiet, Inside
<1>8. ASSUME NEW g \in Handlers, NEW i, NEW d, Adjust(g, i, d) PROVE Shaped(g)
  <2>1. /\ overlap' = overlap /\ MayStart(g) /\ pc[g] = "idle" /\ pc' = [pc EXCEPT ![g] = "write"]
        /\ \E j : j.back = "idle" /\ job' = [job EXCEPT ![g] = j]
    BY <1>8 DEF Adjust, AdjustRead, Read, MayStart, Goto
  <2> QED
    BY ONLY <1>1, <2>1, g \in Handlers DEF Quiet, Inside
<1>9. ASSUME NEW g \in Handlers, NEW i \in Items, DeductRead(g, i) PROVE Shaped(g)
  <2>1. /\ overlap' = overlap /\ pc[g] = "deduct" /\ pc' = [pc EXCEPT ![g] = "write"]
        /\ \E j : j.back = "deduct" /\ job' = [job EXCEPT ![g] = j]
    BY <1>9 DEF DeductRead, Read, Goto
  <2> QED
    BY ONLY <1>1, <2>1, g \in Handlers DEF Quiet, Inside
<1>10. ASSUME NEW g \in Handlers, NEW i, NEW q, NEW p, CreateItem(g, i, q, p) PROVE Shaped(g)
  <2>1. /\ overlap' = overlap /\ MayStart(g) /\ pc[g] = "idle" /\ pc' = [pc EXCEPT ![g] = "committed"]
        /\ \E j : j.back = "idle" /\ job' = [job EXCEPT ![g] = j]
    BY <1>10 DEF CreateItem, MayStart, Goto
  <2> QED
    BY ONLY <1>1, <2>1, g \in Handlers DEF Quiet, Inside
<1>11. ASSUME NEW g \in Handlers, NEW i, DeleteLoad(g, i) PROVE Shaped(g)
  <2>1. /\ overlap' = overlap /\ MayStart(g) /\ pc[g] = "idle" /\ pc' = [pc EXCEPT ![g] = "count"]
        /\ \E j : j.back = "idle" /\ job' = [job EXCEPT ![g] = j]
    BY <1>11 DEF DeleteLoad, Hold, JobOn, MayStart, Goto
  <2> QED
    BY ONLY <1>1, <2>1, g \in Handlers DEF Quiet, Inside
<1>12. \E g \in Handlers : Shaped(g)
  <2>1. CASE MovementStep
    BY <2>1, <1>2, <1>3, <1>4, <1>6, <1>7, <1>8, <1>9, <1>10 DEF MovementStep
  <2>2. CASE DeletionStep
    BY <2>2, <1>3, <1>5, <1>11 DEF DeletionStep
  <2> QED
    BY <2>1, <2>2 DEF StockStep
<1> QED
  BY <1>12

(* Inventory leaves orders and their copies alone; only the commit of a     *)
(* receipt's adjustment adds to what it has brought in. *)
LEMMA NothingBooked ==
    ASSUME OrderInv, StockStep,
           \A h \in Handlers : pc[h] = "write" /\ pc'[h] = "committed" => job[h].back # "receive"
    PROVE  stocked' = stocked
<1>1. \A p, i : Commits(p, i) = {}
  BY DEF Commits
<1>2. stocked' = [p \in PurchaseOrders |-> [i \in Items |-> stocked[p][i] + 0]]
  BY <1>1 DEF StockStep
<1>3. stocked \in [PurchaseOrders -> [Items -> Nat]]
  BY DEF OrderInv, OrderTypes
<1> QED
  BY ONLY <1>2, <1>3

LEMMA QuietStep ==
    ASSUME OrderInv, StockStep, ReceiptInv', overlap' = overlap, NEW g \in Handlers, Quiet(g)
    PROVE  OrderInv'
<1>1. UNCHANGED <<poStatus, lines, free, received, po, poMem, lineMem, entries>>
  BY DEF StockStep, orders, poLocals
<1>2. /\ DOMAIN pc = Handlers /\ DOMAIN job = Handlers
      /\ \A h \in Handlers : job[h].back = "receive" => pc[h] \in {"write", "committed"}
  BY DEF OrderInv, ReceiptInv, ReceiptType, PlaceInv
<1>3. \A h \in Handlers : \/ pc'[h] = pc[h] /\ job'[h] = job[h]
                          \/ /\ pc[h] \notin Inside /\ pc'[h] \notin Inside
                             /\ job[h].back # "receive" /\ job'[h].back \in {"idle", "deduct"}
  BY <1>2 DEF Quiet
<1>4. stocked' = stocked
  BY <1>3, NothingBooked
<1>5. lost' <=> lost
  <2>1. ~ \E h \in Handlers : pc[h] = "write" /\ pc'[h] = "receive"
    BY <1>3 DEF Inside
  <2> QED
    BY ONLY <2>1, StockStep DEF StockStep
<1>6. \A h \in Handlers : AtReceipt(h)' = AtReceipt(h) /\ (pc[h] = "save" <=> pc'[h] = "save")
  BY <1>3 DEF AtReceipt, Inside
<1>7. OrderTypes'
  BY <1>1, <1>4 DEF OrderInv, OrderTypes
<1>8. ASSUME NEW h \in Handlers PROVE PlaceInv(h)'
  <2>1. CASE pc'[h] = pc[h] /\ job'[h] = job[h]
    BY <1>1, <2>1 DEF OrderInv, PlaceInv, AtReceipt
  <2>2. CASE pc[h] \notin Inside /\ pc'[h] \notin Inside /\ job'[h].back \in {"idle", "deduct"}
    <3>1. PlaceInv(h)
      BY DEF OrderInv
    <3> QED
      BY ONLY <1>1, <1>6, <2>2, <3>1 DEF PlaceInv, AtReceipt, Inside
  <2> QED
    BY <1>3, <2>1, <2>2
<1>9. Alone'
  <2>1. CASE UNCHANGED <<pc, job>>
    BY <2>1 DEF OrderInv, Alone
  <2>2. CASE (pc[g] = "idle" => MayStart(g)) /\ \A h \in Handlers : h # g => pc'[h] = pc[h]
    <3>1. ~overlap => \A h \in Handlers : h # g => pc[h] = "idle" /\ pc'[h] = "idle"
      BY <2>2 DEF OrderInv, Alone, MayStart
    <3> QED
      BY <3>1 DEF Alone
  <2> QED
    BY <1>2, <2>1, <2>2 DEF Quiet
<1>10. ~overlap => (\A p \in PurchaseOrders : Agrees(poStatus[p], p)') /\ \A h \in Handlers : CopyInv(h)'
  <2>1. \A p \in PurchaseOrders : Agrees(poStatus[p], p)' <=> Agrees(poStatus[p], p)
    BY <1>1 DEF Agrees
  <2>2. ASSUME NEW h \in Handlers, CopyInv(h) PROVE CopyInv(h)'
    <3>1. pc'[h] = "lines" => pc[h] = "lines"
      BY <1>3 DEF Inside
    <3>2. pc[h] = "lines" => pc'[h] = "lines"
      BY <1>3 DEF Inside
    <3> QED
      BY <1>1, <1>6, <2>2, <3>1, <3>2 DEF CopyInv, Agrees
  <2> QED
    BY <2>1, <2>2 DEF OrderInv
<1>11. ~overlap /\ ~lost => LedgerInv'
  <2>1. \A h \in Handlers : Owes(h)' = Owes(h)
    BY <1>3 DEF Owes, Inside
  <2>2. \A h \in Handlers : Owes(h) => OwedLine(h)' = OwedLine(h) /\ OwedQuantity(h)' = OwedQuantity(h)
    BY <1>1, <1>3 DEF Owes, OwedLine, OwedQuantity, Inside
  <2>3. CASE ~overlap /\ ~lost
    <3>1. LedgerInv
      BY <2>3 DEF OrderInv
    <3> QED
      BY ONLY <1>1, <1>4, <2>1, <2>2, <3>1 DEF LedgerInv
  <2> QED
    BY <2>3
<1> QED
  BY <1>5, <1>7, <1>8, <1>9, <1>10, <1>11 DEF OrderInv

LEMMA EndingStep ==
    ASSUME OrderInv, StockStep, ReceiptInv', overlap' = overlap, NEW g \in Handlers, Ending(g)
    PROVE  OrderInv'
<1>1. UNCHANGED <<poStatus, lines, free, received, po, poMem, lineMem, entries>>
  BY DEF StockStep, orders, poLocals
<1>2. /\ pc[g] \in {"write", "committed"} /\ pc'[g] = "receive"
      /\ job[g].back = "receive" /\ job'[g] = NoJob /\ NoJob.back = "idle"
      /\ \A h \in Handlers : h # g => pc'[h] = pc[h] /\ job'[h] = job[h]
  BY DEF Ending, OrderInv, ReceiptInv, ReceiptType, NoJob, JobOn
<1>3. stocked' = stocked
  BY <1>2, NothingBooked
<1>4. OrderTypes'
  BY <1>1, <1>3 DEF OrderInv, OrderTypes
<1>5. OthersKeep(g)
  BY <1>1, <1>2 DEF OthersKeep
<1>6. PlaceInv(g)'
  BY <1>1, <1>2 DEF OrderInv, PlaceInv, AtReceipt
<1>7. ~overlap => (\A p \in PurchaseOrders : Agrees(poStatus[p], p)') /\ CopyInv(g)'
  BY <1>1, <1>2 DEF OrderInv, Agrees, CopyInv, AtReceipt
<1>8. lost' = (lost \/ pc[g] = "write")
  <2>1. \A h \in Handlers : pc[h] = "write" /\ pc'[h] = "receive" <=> h = g /\ pc[g] = "write"
    BY <1>2
  <2> QED
    BY <2>1 DEF StockStep
<1>9. ~overlap /\ ~lost' => LedgerOf(g)'
  <2>1. CASE ~overlap /\ ~lost'
    <3>1. LedgerOf(g) /\ ~Owes(g) /\ ~Owes(g)'
      BY <1>2, <1>8, <2>1, LedgerAlone DEF Owes
    <3> QED
      BY <1>1, <1>3, <3>1 DEF LedgerOf
  <2> QED
    BY <2>1
<1> QED
  BY <1>2, <1>4, <1>5, <1>6, <1>7, <1>9, OwnStep

LEMMA BookingStep ==
    ASSUME OrderInv, StockStep, ReceiptInv', overlap' = overlap, NEW g \in Handlers, Booking(g)
    PROVE  OrderInv'
<1>1. UNCHANGED <<poStatus, lines, free, received, po, poMem, lineMem, entries>>
  BY DEF StockStep, orders, poLocals
<1>2. /\ pc[g] = "write" /\ pc'[g] = "committed" /\ job[g].back = "receive" /\ job' = job
      /\ \A h \in Handlers : h # g => pc'[h] = pc[h]
  BY DEF Booking, OrderInv, ReceiptInv, ReceiptType
<1>3. /\ job[g].delta \in Nat /\ stocked \in [PurchaseOrders -> [Items -> Nat]]
      /\ received \in [PurchaseOrders -> [Items -> Nat]]
  BY <1>2 DEF OrderInv, OrderTypes, PlaceInv, ReceiptInv, ReceiptType
<1>4. \A p, i : Commits(p, i) = IF p = po[g] /\ i = job[g].item THEN {g} ELSE {}
  BY <1>2 DEF Commits
<1>5. stocked' = [p \in PurchaseOrders |-> [i \in Items |->
                    stocked[p][i] + IF p = po[g] /\ i = job[g].item THEN job[g].delta ELSE 0]]
  <2>1. stocked' = [p \in PurchaseOrders |-> [i \in Items |->
                      stocked[p][i] + IF Commits(p, i) = {} THEN 0
                                      ELSE job[CHOOSE h \in Commits(p, i) : TRUE].delta]]
    BY DEF StockStep
  <2> QED
    BY ONLY <1>4, <2>1
<1>6. OrderTypes'
  BY <1>1, <1>3, <1>5 DEF OrderInv, OrderTypes
<1>7. OthersKeep(g)
  BY <1>1, <1>2 DEF OthersKeep
<1>8. PlaceInv(g)'
  BY <1>1, <1>2 DEF OrderInv, PlaceInv, AtReceipt
<1>9. ~overlap => (\A p \in PurchaseOrders : Agrees(poStatus[p], p)') /\ CopyInv(g)'
  BY <1>1, <1>2 DEF OrderInv, Agrees, CopyInv, AtReceipt
<1>10. lost' <=> lost
  <2>1. ~ \E h \in Handlers : pc[h] = "write" /\ pc'[h] = "receive"
    BY <1>2
  <2> QED
    BY ONLY <2>1, StockStep DEF StockStep
<1>11. ~overlap /\ ~lost => LedgerOf(g)'
  <2>1. CASE ~overlap /\ ~lost
    <3>1. LedgerOf(g) /\ Owes(g) /\ OwedLine(g) = job[g].item /\ OwedQuantity(g) = job[g].delta /\ ~Owes(g)'
      BY <1>2, <2>1, LedgerAlone DEF Owes, OwedLine, OwedQuantity
    <3>2. \A p \in PurchaseOrders, i \in Items : received[p][i] = stocked'[p][i]
      BY <1>5, <3>1 DEF LedgerOf
    <3>3. received = stocked'
      BY <1>3, <1>5, <3>2
    <3> QED
      BY <1>1, <3>1, <3>3 DEF LedgerOf
  <2> QED
    BY <2>1
<1> QED
  BY <1>2, <1>6, <1>7, <1>8, <1>9, <1>10, <1>11, OwnStep

-----------------------------------------------------------------------------
(* The order module's own steps. *)
LEMMA CreateStep ==
    ASSUME OrderInv, ReceiptInv', NEW h \in Handlers, NEW p \in PurchaseOrders, NEW is \in SUBSET Items,
           NEW zero \in BOOLEAN, CreatePurchaseOrder(h, p, is, zero)
    PROVE  OrderInv'
<1>1. /\ MayStart(h) /\ pc[h] = "idle" /\ poStatus[p] = "absent"
      /\ poStatus' = [poStatus EXCEPT ![p] = "draft"] /\ lines' = [lines EXCEPT ![p] = is]
      /\ free' \in {free, free \cup {p}}
      /\ UNCHANGED <<overlap, pc, job, received, po, poMem, lineMem, entries, stocked, lost>>
  BY DEF CreatePurchaseOrder, MayStart, inventory, locals, poLocals, PurchaseOrderFSM, Definition
<1>2. OthersKeep(h)
  BY <1>1 DEF OthersKeep
<1>3. OrderTypes'
  BY <1>1, OrderStates DEF OrderInv, OrderTypes
<1>4. PlaceInv(h)'
  BY <1>1 DEF OrderInv, PlaceInv, AtReceipt
<1>5. ~overlap => (\A q \in PurchaseOrders : Agrees(poStatus[q], q)') /\ CopyInv(h)'
  <2>1. CopyInv(h)'
    BY <1>1 DEF OrderInv, PlaceInv, CopyInv, AtReceipt
  <2>2. ASSUME ~overlap, NEW q \in PurchaseOrders PROVE Agrees(poStatus[q], q)'
    <3>1. Agrees(poStatus[q], q)
      BY <2>2 DEF OrderInv
    <3> QED
      BY <1>1, <3>1 DEF OrderInv, OrderTypes, Agrees, Open
  <2> QED
    BY <2>1, <2>2
<1>6. ~overlap /\ ~lost' => LedgerOf(h)'
  BY <1>1, LedgerAlone DEF LedgerOf, Owes
<1> QED
  BY <1>1, <1>2, <1>3, <1>4, <1>5, <1>6, OwnStep

LEMMA FireLoadStep ==
    ASSUME OrderInv, ReceiptInv', NEW h \in Handlers, NEW p \in PurchaseOrders,
           NEW e \in {"submit", "approve", "cancel"}, FireLoad(h, p, e)
    PROVE  OrderInv'
<1> DEFINE s == Target(PurchaseOrderFSM, poStatus[p], e)
<1>1. /\ MayStart(h) /\ pc[h] = "idle" /\ Can(PurchaseOrderFSM, poStatus[p], e)
      /\ po' = [po EXCEPT ![h] = p] /\ poMem' = [poMem EXCEPT ![h] = s] /\ pc' = [pc EXCEPT ![h] = "save"]
      /\ UNCHANGED <<overlap, job, poStatus, lines, free, received, lineMem, entries, stocked, lost>>
  BY DEF FireLoad, MayStart, Goto, Elsewhere, locals, orders
<1>2. s \in PurchaseOrderFSM.states /\ poStatus[p] \in Open /\ s \in {"submitted", "approved", "cancelled"}
  BY <1>1, OrderMoves
<1>3. /\ po'[h] = p /\ poMem'[h] = s /\ pc'[h] = "save" /\ job[h].back # "receive" /\ p # NoOrder
      /\ DOMAIN po' = Handlers /\ DOMAIN poMem' = Handlers
  BY <1>1, PurchaseOrderAssumption DEF OrderInv, OrderTypes, PlaceInv, ReceiptInv, ReceiptType
<1> HIDE DEF s
<1>4. OthersKeep(h)
  BY <1>1 DEF OthersKeep
<1>5. OrderTypes'
  BY <1>1, <1>2, <1>3 DEF OrderInv, OrderTypes
<1>6. PlaceInv(h)'
  BY <1>1, <1>2, <1>3 DEF OrderInv, PlaceInv, AtReceipt
<1>7. ~overlap => (\A q \in PurchaseOrders : Agrees(poStatus[q], q)') /\ CopyInv(h)'
  <2>1. CASE ~overlap
    <3>1. \A q \in PurchaseOrders : Agrees(poStatus[q], q) /\ Agrees(poStatus[q], q)'
      BY <1>1, <2>1 DEF OrderInv, Agrees
    <3>2. received[p] = NoLines
      BY <1>2, <3>1 DEF Agrees
    <3> QED
      BY <1>1, <1>2, <1>3, <3>1, <3>2 DEF CopyInv, AtReceipt, Agrees
  <2> QED
    BY <2>1
<1>8. ~overlap /\ ~lost' => LedgerOf(h)'
  BY <1>1, <1>3, LedgerAlone DEF LedgerOf, Owes
<1> QED
  BY <1>1, <1>4, <1>5, <1>6, <1>7, <1>8, OwnStep

LEMMA SaveStep ==
    ASSUME OrderInv, ReceiptInv', NEW h \in Handlers, SaveStatus(h)
    PROVE  OrderInv'
<1>1. /\ pc[h] = "save" /\ pc' = [pc EXCEPT ![h] = "idle"]
      /\ poStatus' \in {poStatus, [poStatus EXCEPT ![po[h]] = poMem[h]]}
      /\ po' = [po EXCEPT ![h] = NoOrder] /\ poMem' = [poMem EXCEPT ![h] = "absent"]
      /\ lineMem' = [lineMem EXCEPT ![h] = NoLines] /\ entries' = [entries EXCEPT ![h] = <<>>]
      /\ UNCHANGED <<overlap, job, lines, free, received, stocked, lost>>
  BY DEF SaveStatus, Leave, Forget, Goto, Elsewhere, locals
<1>2. /\ po'[h] = NoOrder /\ poMem'[h] = "absent" /\ entries'[h] = <<>> /\ pc'[h] = "idle"
      /\ job[h].back # "receive" /\ po[h] \in PurchaseOrders /\ poMem[h] \in PurchaseOrderFSM.states \cup {"absent"}
      /\ DOMAIN po' = Handlers /\ DOMAIN poMem' = Handlers
  BY <1>1 DEF OrderInv, OrderTypes, PlaceInv, ReceiptInv, ReceiptType
<1>3. OthersKeep(h)
  BY <1>1 DEF OthersKeep
<1>4. OrderTypes'
  BY <1>1, <1>2 DEF OrderInv, OrderTypes
<1>5. PlaceInv(h)'
  BY <1>1, <1>2, PurchaseOrderAssumption DEF PlaceInv, AtReceipt
<1>6. ~overlap => (\A q \in PurchaseOrders : Agrees(poStatus[q], q)') /\ CopyInv(h)'
  <2>1. CopyInv(h)'
    BY <1>1, <1>2 DEF CopyInv, AtReceipt
  <2>2. ASSUME ~overlap, NEW q \in PurchaseOrders PROVE Agrees(poStatus[q], q)'
    <3>1. Agrees(poStatus[q], q) /\ Agrees(poMem[h], po[h])
      BY <1>1, <2>2 DEF OrderInv, CopyInv
    <3>2. poStatus'[q] = poStatus[q] \/ (q = po[h] /\ poStatus'[q] = poMem[h])
      BY <1>1, <1>2 DEF OrderInv, OrderTypes
    <3> QED
      BY <1>1, <3>1, <3>2 DEF Agrees
  <2> QED
    BY <2>1, <2>2
<1>7. ~overlap /\ ~lost' => LedgerOf(h)'
  BY <1>1, <1>2, LedgerAlone DEF LedgerOf, Owes
<1> QED
  BY <1>1, <1>3, <1>4, <1>5, <1>6, <1>7, OwnStep

LEMMA ReceiveLoadKeeps ==
    ASSUME OrderInv, ReceiptInv', NEW h \in Handlers, NEW p \in PurchaseOrders, NEW named \in Receipts,
           ReceiveLoad(h, p, named)
    PROVE  OrderInv'
<1>1. /\ MayStart(h) /\ pc[h] = "idle" /\ poStatus[p] \in {"approved", "partially_received"}
      /\ po' = [po EXCEPT ![h] = p] /\ poMem' = [poMem EXCEPT ![h] = poStatus[p]]
      /\ entries' = [entries EXCEPT ![h] = named] /\ pc' = [pc EXCEPT ![h] = "lines"]
      /\ UNCHANGED <<overlap, job, poStatus, lines, free, received, lineMem, stocked, lost>>
  BY DEF ReceiveLoad, MayStart, Goto, Elsewhere, locals, orders
<1>2. Len(named) <= MaxEntries
  <2>1. PICK n \in 0..MaxEntries : named \in [1..n -> Entry]
    BY DEF Receipts, Entry
  <2>2. n \in Nat /\ n <= MaxEntries
    BY PurchaseOrderAssumption
  <2> QED
    BY <2>1, <2>2
<1>3. /\ po'[h] = p /\ poMem'[h] = poStatus[p] /\ pc'[h] = "lines" /\ entries'[h] = named
      /\ job[h].back # "receive" /\ p # NoOrder
      /\ DOMAIN po' = Handlers /\ DOMAIN poMem' = Handlers
  BY <1>1, PurchaseOrderAssumption DEF OrderInv, OrderTypes, PlaceInv, ReceiptInv, ReceiptType
<1>4. OthersKeep(h)
  BY <1>1 DEF OthersKeep
<1>5. OrderTypes'
  BY <1>1, <1>3 DEF OrderInv, OrderTypes
<1>6. PlaceInv(h)'
  BY <1>1, <1>2, <1>3, OrderStates DEF PlaceInv, AtReceipt
<1>7. ~overlap => (\A q \in PurchaseOrders : Agrees(poStatus[q], q)') /\ CopyInv(h)'
  BY <1>1, <1>3 DEF OrderInv, Agrees, CopyInv, AtReceipt
<1>8. ~overlap /\ ~lost' => LedgerOf(h)'
  BY <1>1, <1>3, LedgerAlone DEF LedgerOf, Owes
<1> QED
  BY <1>1, <1>4, <1>5, <1>6, <1>7, <1>8, OwnStep

(* A handler that leaves the order, or is stopped. *)
LEMMA LeftStep ==
    ASSUME OrderInv, ReceiptInv', NEW h \in Handlers, pc[h] # "idle",
           pc' = [pc EXCEPT ![h] = "idle"], job'[h].back # "receive",
           \A g \in Handlers : g # h => job'[g] = job[g],
           Forget(h), UNCHANGED <<overlap, orders, stocked>>,
           lost' => lost \/ Owes(h), lost \/ Owes(h) => lost'
    PROVE  OrderInv'
<1>1. /\ po' = [po EXCEPT ![h] = NoOrder] /\ poMem' = [poMem EXCEPT ![h] = "absent"]
      /\ lineMem' = [lineMem EXCEPT ![h] = NoLines] /\ entries' = [entries EXCEPT ![h] = <<>>]
      /\ UNCHANGED <<poStatus, lines, free, received>>
  BY DEF Forget, orders
<1>2. /\ po'[h] = NoOrder /\ poMem'[h] = "absent" /\ entries'[h] = <<>> /\ pc'[h] = "idle"
      /\ job'[h].back # "receive" /\ DOMAIN po' = Handlers /\ DOMAIN poMem' = Handlers
      /\ \A g \in Handlers : g # h => job'[g] = job[g]
  BY <1>1 DEF OrderInv, OrderTypes, ReceiptInv, ReceiptType
<1>3. OthersKeep(h)
  BY <1>1, <1>2 DEF OthersKeep
<1>4. OrderTypes'
  BY <1>1, <1>2 DEF OrderInv, OrderTypes
<1>5. PlaceInv(h)'
  BY <1>2, PurchaseOrderAssumption DEF PlaceInv, AtReceipt
<1>6. ~overlap => (\A q \in PurchaseOrders : Agrees(poStatus[q], q)') /\ CopyInv(h)'
  BY <1>1, <1>2 DEF OrderInv, Agrees, CopyInv, AtReceipt
<1>7. ~overlap /\ ~lost' => LedgerOf(h)'
  BY <1>1, <1>2, LedgerAlone DEF LedgerOf, Owes
<1> QED
  BY <1>3, <1>4, <1>5, <1>6, <1>7, OwnStep

LEMMA StopStep == ASSUME OrderInv, ReceiptInv', NEW h \in Handlers, Stop(h) PROVE OrderInv'
<1>1. /\ pc[h] # "idle" /\ pc' = [pc EXCEPT ![h] = "idle"] /\ job' = [job EXCEPT ![h] = NoJob]
      /\ Forget(h) /\ UNCHANGED <<overlap, orders, stocked>>
      /\ lost' = (lost \/ (po[h] # NoOrder /\ pc[h] \in {"stock", "write"}))
  BY DEF Stop, Crash, Goto
<1>2. NoJob.back # "receive"
  BY DEF NoJob, JobOn
<1>3. po[h] # NoOrder /\ pc[h] \in {"stock", "write"} <=> Owes(h)
  BY DEF OrderInv, PlaceInv, AtReceipt, Owes
<1> QED
  <2>1. job'[h].back # "receive" /\ \A g \in Handlers : g # h => job'[g] = job[g]
    BY <1>1, <1>2 DEF OrderInv, ReceiptInv, ReceiptType
  <2> QED
    BY <1>1, <1>3, <2>1, LeftStep

LEMMA EventStep == ASSUME OrderInv, ReceiptInv', NEW h \in Handlers, ReceiveEvent(h) PROVE OrderInv'
<1>1. /\ pc[h] = "receive" /\ AtReceipt(h) /\ ~Owes(h)
      /\ UNCHANGED <<overlap, job, orders, poStatus, lines, free, received, stocked, lost>>
  BY DEF ReceiveEvent, Elsewhere, locals, orders, AtReceipt, Owes
<1>2. job[h].back # "receive" /\ poMem[h] \in {"approved", "partially_received"} /\ po[h] \in PurchaseOrders
  BY <1>1 DEF OrderInv, PlaceInv
<1>3. CASE Leave(h)
  BY <1>1, <1>2, <1>3, LeftStep DEF Leave, Goto
<1>4. ASSUME NEW s, poMem' = [poMem EXCEPT ![h] = s], pc' = [pc EXCEPT ![h] = "save"],
             UNCHANGED <<po, lineMem, entries>>,
             \/ s = "received" /\ AllReceived(po[h], lineMem[h])
             \/ s = "partially_received"
      PROVE  OrderInv'
  <2>1. poMem'[h] = s /\ pc'[h] = "save" /\ DOMAIN poMem' = Handlers
    BY <1>4 DEF OrderInv, OrderTypes, ReceiptInv, ReceiptType
  <2>2. OthersKeep(h)
    BY <1>1, <1>4 DEF OthersKeep
  <2>3. OrderTypes'
    BY <1>1, <1>4, <2>1, OrderStates DEF OrderInv, OrderTypes
  <2>4. PlaceInv(h)'
    <3>1. PlaceInv(h)
      BY DEF OrderInv
    <3> QED
      BY ONLY <1>1, <1>2, <1>4, <2>1, <3>1, OrderStates DEF PlaceInv, AtReceipt
  <2>5. ~overlap => (\A q \in PurchaseOrders : Agrees(poStatus[q], q)') /\ CopyInv(h)'
    <3>1. ~overlap => \A q \in PurchaseOrders : Agrees(poStatus[q], q)'
      BY <1>1 DEF OrderInv, Agrees
    <3>2. ~overlap => lineMem[h] = received[po[h]]
      BY <1>1 DEF OrderInv, CopyInv
    <3>3. ~overlap => Agrees(s, po[h])
      BY <1>4, <3>2 DEF Agrees, AllReceived, Open
    <3> QED
      BY <1>1, <1>2, <1>4, <2>1, <3>1, <3>3 DEF CopyInv, AtReceipt, Agrees
  <2>6. ~overlap /\ ~lost' => LedgerOf(h)'
    BY <1>1, <2>1, LedgerAlone DEF LedgerOf, Owes
  <2> QED
    BY <1>1, <2>2, <2>3, <2>4, <2>5, <2>6, OwnStep
<1>5. CASE ~Leave(h)
  <2> DEFINE full == AllReceived(po[h], lineMem[h])
             s == Target(PurchaseOrderFSM, poMem[h], IF full THEN "receive_full" ELSE "receive_partial")
  <2>1. /\ full \/ poMem[h] = "approved"
        /\ poMem' = [poMem EXCEPT ![h] = s] /\ pc' = [pc EXCEPT ![h] = "save"]
        /\ UNCHANGED <<po, lineMem, entries>>
    BY <1>5 DEF ReceiveEvent, Goto
  <2>2. (s = "received" /\ full) \/ s = "partially_received"
    BY <1>2, <2>1, ReceiptMoves
  <2> HIDE DEF s
  <2> QED
    BY <1>4, <2>1, <2>2
<1> QED
  BY <1>3, <1>5

LEMMA LinesLoaded == ASSUME OrderInv, ReceiptInv', NEW h \in Handlers, ReceiveLines(h) PROVE OrderInv'
<1>1. /\ pc[h] = "lines" /\ AtReceipt(h) /\ ~Owes(h)
      /\ UNCHANGED <<overlap, job, orders, poStatus, lines, free, received, stocked, lost>>
  BY DEF ReceiveLines, Elsewhere, locals, orders, AtReceipt, Owes
<1>2. job[h].back # "receive" /\ po[h] \in PurchaseOrders /\ PlaceInv(h)
  BY <1>1 DEF OrderInv, PlaceInv
<1>3. CASE Leave(h)
  BY <1>1, <1>2, <1>3, LeftStep DEF Leave, Goto
<1>4. CASE ~Leave(h)
  <2>1. /\ lineMem' = [lineMem EXCEPT ![h] = received[po[h]]] /\ pc' = [pc EXCEPT ![h] = "receive"]
        /\ UNCHANGED <<po, poMem, entries>>
    BY <1>4 DEF ReceiveLines, Goto
  <2>2. lineMem'[h] = received[po[h]] /\ pc'[h] = "receive"
    BY <2>1 DEF OrderInv, ReceiptInv, ReceiptType
  <2>3. OthersKeep(h)
    BY <1>1, <2>1 DEF OthersKeep
  <2>4. OrderTypes'
    BY <1>1, <2>1 DEF OrderInv, OrderTypes
  <2>5. PlaceInv(h)'
    BY ONLY <1>1, <1>2, <2>1, <2>2 DEF PlaceInv, AtReceipt
  <2>6. ~overlap => (\A q \in PurchaseOrders : Agrees(poStatus[q], q)') /\ CopyInv(h)'
    BY <1>1, <1>2, <2>1, <2>2 DEF OrderInv, CopyInv, AtReceipt, Agrees
  <2>7. ~overlap /\ ~lost' => LedgerOf(h)'
    BY <1>1, <1>2, <2>2, LedgerAlone DEF LedgerOf, Owes
  <2> QED
    BY <1>1, <2>3, <2>4, <2>5, <2>6, <2>7, OwnStep
<1> QED
  BY <1>3, <1>4

(* The first of the entries. *)
LEMMA FirstEntry ==
    ASSUME ReceiptInv, NEW h \in Handlers, entries[h] # <<>>
    PROVE  LET e == Head(entries[h]) IN
           e \in Entry /\ e.line \in Items /\ e.quantity \in Nat /\ e = entries[h][1]
<1>1. entries[h] \in Seq(Entry)
  BY DEF ReceiptInv, ReceiptType
<1>2. Head(entries[h]) \in Entry /\ Head(entries[h]) = entries[h][1]
  BY <1>1, TailEntries
<1>3. \A x \in Entry : x.line \in Items /\ x.quantity \in Nat
  BY PurchaseOrderAssumption DEF Entry
<1> QED
  BY <1>2, <1>3

(* A step of a receipt that is not yet at its end. *)
LEMMA LineSkipped ==
    ASSUME OrderInv, ReceiptInv', NEW h \in Handlers, pc[h] = "receive", entries[h] # <<>>,
           entries' = [entries EXCEPT ![h] = Tail(@)],
           UNCHANGED <<overlap, pc, job, orders, po, poMem, lineMem, stocked, lost>>
    PROVE  OrderInv'
<1>1. entries[h] \in Seq(Entry) /\ Len(entries'[h]) = Len(entries[h]) - 1 /\ Len(entries[h]) \in Nat
      /\ MaxEntries \in Nat
  BY TailEntries, PurchaseOrderAssumption DEF OrderInv, ReceiptInv, ReceiptType
<1>2. OthersKeep(h) /\ OrderTypes'
  BY DEF OthersKeep, orders, OrderInv, OrderTypes
<1>3. PlaceInv(h)'
  <2>1. Len(entries'[h]) <= MaxEntries
    BY <1>1 DEF OrderInv, PlaceInv
  <2> QED
    BY <2>1 DEF OrderInv, PlaceInv, AtReceipt
<1>4. ~overlap => (\A q \in PurchaseOrders : Agrees(poStatus[q], q)') /\ CopyInv(h)'
  BY DEF orders, OrderInv, CopyInv, AtReceipt, Agrees
<1>5. ~overlap /\ ~lost' => LedgerOf(h)'
  BY LedgerAlone DEF orders, OrderInv, PlaceInv, LedgerOf, Owes
<1> QED
  BY <1>2, <1>3, <1>4, <1>5, OwnStep

LEMMA LineSaved ==
    ASSUME OrderInv, ReceiptInv', NEW h \in Handlers, pc[h] = "receive", entries[h] # <<>>,
           NEW e, e = Head(entries[h]),
           received' = [received EXCEPT ![po[h]][e.line] = NowReceived(h, e)],
           lineMem' = [lineMem EXCEPT ![h][e.line] = NowReceived(h, e)],
           pc' = [pc EXCEPT ![h] = "stock"],
           UNCHANGED <<overlap, job, poStatus, lines, free, po, poMem, entries, stocked, lost>>
    PROVE  OrderInv'
<1>1. e \in Entry /\ e.line \in Items /\ e.quantity \in Nat /\ e = entries[h][1]
  BY FirstEntry DEF OrderInv
<1>2. /\ AtReceipt(h) /\ ~Owes(h) /\ job[h].back # "receive" /\ po[h] \in PurchaseOrders /\ PlaceInv(h)
  BY DEF OrderInv, PlaceInv, AtReceipt, Owes
<1>3. /\ received \in [PurchaseOrders -> [Items -> Nat]] /\ lineMem \in [Handlers -> [Items -> Nat]]
      /\ stocked \in [PurchaseOrders -> [Items -> Nat]]
      /\ pc'[h] = "stock" /\ lineMem'[h] = [lineMem[h] EXCEPT ![e.line] = NowReceived(h, e)]
      /\ \A g \in Handlers : g # h => pc'[g] = pc[g] /\ lineMem'[g] = lineMem[g]
  BY DEF OrderInv, OrderTypes, ReceiptInv, ReceiptType
<1>4. received'[po[h]] = [received[po[h]] EXCEPT ![e.line] = NowReceived(h, e)]
      /\ \A q \in PurchaseOrders : q # po[h] => received'[q] = received[q]
  BY <1>2, <1>3
<1>5. OthersKeep(h)
  BY <1>3 DEF OthersKeep
<1>6. OrderTypes'
  BY DEF OrderInv, OrderTypes
<1>7. PlaceInv(h)'
  BY ONLY <1>2, <1>3, UNCHANGED <<job, po, poMem, entries>>, pc[h] = "receive" DEF PlaceInv, AtReceipt
<1>8. ~overlap => (\A q \in PurchaseOrders : Agrees(poStatus[q], q)') /\ CopyInv(h)'
  <2>1. CASE ~overlap
    <3>1. /\ poStatus[po[h]] \in {"approved", "partially_received"} /\ lineMem[h] = received[po[h]]
          /\ \A q \in PurchaseOrders : Agrees(poStatus[q], q)
      BY <1>2, <2>1 DEF OrderInv, CopyInv
    <3>2. ASSUME NEW q \in PurchaseOrders PROVE Agrees(poStatus[q], q)'
      <4>1. CASE q = po[h]
        BY <3>1, <4>1 DEF Agrees, Open
      <4>2. CASE q # po[h]
        BY <1>4, <3>1, <4>2 DEF Agrees
      <4> QED
        BY <4>1, <4>2
    <3>3. CopyInv(h)'
      BY <1>3, <1>4, <3>1 DEF CopyInv
    <3> QED
      BY <3>2, <3>3
  <2> QED
    BY <2>1
<1>9. ~overlap /\ ~lost' => LedgerOf(h)'
  <2>1. CASE ~overlap /\ ~lost'
    <3>1. stocked = received /\ lineMem[h] = received[po[h]]
      BY <1>2, <2>1, LedgerAlone DEF LedgerOf, OrderInv, CopyInv
    <3>2. Owes(h)' /\ OwedLine(h)' = e.line /\ OwedQuantity(h)' = e.quantity
      BY <1>1, <1>3 DEF Owes, OwedLine, OwedQuantity
    <3>3. NowReceived(h, e) = stocked[po[h]][e.line] + e.quantity
      BY <3>1 DEF NowReceived
    <3>4. ASSUME NEW q \in PurchaseOrders, NEW i \in Items
          PROVE  received'[q][i] = stocked[q][i] + IF q = po[h] /\ i = e.line THEN e.quantity ELSE 0
      <4>1. CASE q = po[h] /\ i = e.line
        BY <1>2, <1>3, <1>4, <3>3, <4>1
      <4>2. CASE ~(q = po[h] /\ i = e.line)
        <5>1. received'[q][i] = received[q][i] /\ stocked[q][i] \in Nat
          BY <1>2, <1>3, <1>4, <4>2
        <5> QED
          BY ONLY <3>1, <4>2, <5>1
      <4> QED
        BY <4>1, <4>2
    <3> QED
      BY <3>2, <3>4 DEF LedgerOf
  <2> QED
    BY <2>1
<1> QED
  BY <1>5, <1>6, <1>7, <1>8, <1>9, OwnStep

LEMMA ReceiveLineKeeps == ASSUME OrderInv, ReceiptInv', NEW h \in Handlers, ReceiveLine(h) PROVE OrderInv'
<1>1. /\ pc[h] = "receive" /\ entries[h] # <<>> /\ AtReceipt(h) /\ ~Owes(h)
      /\ UNCHANGED <<overlap, job, stocked, lost>>
  BY DEF ReceiveLine, Elsewhere, locals, AtReceipt, Owes, OrderInv, PlaceInv
<1>2. job[h].back # "receive"
  BY <1>1 DEF OrderInv, PlaceInv
<1>3. CASE Leave(h) /\ UNCHANGED orders
  BY <1>1, <1>2, <1>3, LeftStep DEF Leave, Goto
<1>4. CASE entries' = [entries EXCEPT ![h] = Tail(@)] /\ UNCHANGED <<orders, po, poMem, lineMem, pc>>
  BY <1>1, <1>4, LineSkipped
<1> DEFINE e == Head(entries[h])
<1>5. CASE /\ received' = [received EXCEPT ![po[h]][e.line] = NowReceived(h, e)]
           /\ lineMem' = [lineMem EXCEPT ![h][e.line] = NowReceived(h, e)]
           /\ Goto(h, "stock")
           /\ UNCHANGED <<poStatus, lines, free, po, poMem, entries>>
  BY <1>1, <1>5, LineSaved DEF Goto
<1> QED
  BY <1>3, <1>4, <1>5 DEF ReceiveLine

LEMMA StockBegun == ASSUME OrderInv, ReceiptInv', NEW h \in Handlers, ReceiveStock(h) PROVE OrderInv'
<1> DEFINE e == Head(entries[h])
<1>1. /\ pc[h] = "stock" /\ entries[h] # <<>> /\ pc' = [pc EXCEPT ![h] = "write"]
      /\ entries' = [entries EXCEPT ![h] = Tail(@)]
      /\ \E j : /\ job' = [job EXCEPT ![h] = j]
                /\ j.item = e.line /\ j.delta = e.quantity /\ j.back = "receive"
      /\ UNCHANGED <<overlap, orders, poStatus, lines, free, received, po, poMem, lineMem, stocked, lost>>
  <2>1. pc[h] = "stock" /\ AdjustRead(h, e.line, e.quantity, "receive")
        /\ entries' = [entries EXCEPT ![h] = Tail(@)]
        /\ UNCHANGED <<orders, po, poMem, lineMem, stocked, lost>>
    BY DEF ReceiveStock
  <2> DEFINE q == qty[e.line] + e.quantity
             j == [item |-> e.line, menu |-> None, delta |-> e.quantity, new |-> q,
                   short |-> q - q, point |-> point[e.line], move |-> moves', back |-> "receive"]
  <2>2. pc' = [pc EXCEPT ![h] = "write"] /\ overlap' = overlap /\ job' = [job EXCEPT ![h] = j]
    BY ONLY <2>1 DEF AdjustRead, Read, Goto
  <2>3. j.item = e.line /\ j.delta = e.quantity /\ j.back = "receive"
    OBVIOUS
  <2> HIDE DEF j
  <2>4. entries[h] # <<>>
    BY <2>1 DEF OrderInv, ReceiptInv, ReceiptType
  <2> QED
    BY ONLY <2>1, <2>2, <2>3, <2>4 DEF orders
<1>2. /\ e = entries[h][1] /\ e.line \in Items /\ e.quantity \in Nat
      /\ Len(entries'[h]) = Len(entries[h]) - 1 /\ Len(entries[h]) \in Nat /\ MaxEntries \in Nat
  <2>1. e = entries[h][1] /\ e.line \in Items /\ e.quantity \in Nat
    BY <1>1, FirstEntry DEF OrderInv
  <2>2. Len(entries'[h]) = Len(entries[h]) - 1 /\ Len(entries[h]) \in Nat /\ MaxEntries \in Nat
    BY <1>1, TailEntries, PurchaseOrderAssumption DEF OrderInv, ReceiptInv, ReceiptType
  <2> QED
    BY <2>1, <2>2
<1>3. /\ pc'[h] = "write" /\ job'[h].item = e.line /\ job'[h].delta = e.quantity /\ job'[h].back = "receive"
      /\ \A g \in Handlers : g # h => job'[g] = job[g]
  BY <1>1 DEF OrderInv, ReceiptInv, ReceiptType
<1>4. PlaceInv(h) /\ AtReceipt(h) /\ Owes(h) /\ OwedLine(h) = e.line /\ OwedQuantity(h) = e.quantity
  BY <1>1, <1>2 DEF OrderInv, AtReceipt, Owes, OwedLine, OwedQuantity
<1> HIDE DEF e
<1>5. OthersKeep(h)
  BY <1>1, <1>3 DEF OthersKeep
<1>6. OrderTypes'
  BY <1>1 DEF OrderInv, OrderTypes
<1>7. PlaceInv(h)'
  <2>1. Len(entries'[h]) <= MaxEntries
    BY <1>2, <1>4 DEF PlaceInv
  <2> QED
    BY ONLY <1>1, <1>2, <1>3, <1>4, <2>1 DEF PlaceInv, AtReceipt
<1>8. ~overlap => (\A q \in PurchaseOrders : Agrees(poStatus[q], q)') /\ CopyInv(h)'
  BY <1>1, <1>3, <1>4 DEF OrderInv, CopyInv, AtReceipt, Agrees
<1>9. ~overlap /\ ~lost' => LedgerOf(h)'
  <2>1. Owes(h)' /\ OwedLine(h)' = e.line /\ OwedQuantity(h)' = e.quantity
    BY <1>3 DEF Owes, OwedLine, OwedQuantity
  <2> QED
    BY <1>1, <1>4, <2>1, LedgerAlone DEF LedgerOf
<1> QED
  BY <1>1, <1>5, <1>6, <1>7, <1>8, <1>9, OwnStep

LEMMA StockLost == ASSUME OrderInv, ReceiptInv', NEW h \in Handlers, ReceiveUnstocked(h) PROVE OrderInv'
<1>1. /\ pc[h] = "stock" /\ entries[h] # <<>> /\ pc' = [pc EXCEPT ![h] = "receive"] /\ lost'
      /\ entries' = [entries EXCEPT ![h] = Tail(@)]
      /\ UNCHANGED <<overlap, job, orders, poStatus, lines, free, received, po, poMem, lineMem, stocked>>
  BY DEF ReceiveUnstocked, Elsewhere, Goto, locals, orders, OrderInv, ReceiptInv, ReceiptType
<1>2. /\ Len(entries'[h]) = Len(entries[h]) - 1 /\ Len(entries[h]) \in Nat /\ MaxEntries \in Nat
  BY <1>1, TailEntries, PurchaseOrderAssumption DEF OrderInv, ReceiptInv, ReceiptType
<1>3. PlaceInv(h) /\ AtReceipt(h) /\ pc'[h] = "receive"
  BY <1>1 DEF OrderInv, AtReceipt, ReceiptInv, ReceiptType
<1>4. OthersKeep(h)
  BY <1>1 DEF OthersKeep
<1>5. OrderTypes'
  BY <1>1 DEF OrderInv, OrderTypes
<1>6. PlaceInv(h)'
  <2>1. Len(entries'[h]) <= MaxEntries
    BY <1>2, <1>3 DEF PlaceInv
  <2> QED
    BY ONLY <1>1, <1>3, <2>1 DEF PlaceInv, AtReceipt
<1>7. ~overlap => (\A q \in PurchaseOrders : Agrees(poStatus[q], q)') /\ CopyInv(h)'
  BY <1>1, <1>3 DEF OrderInv, CopyInv, AtReceipt, Agrees
<1> QED
  BY <1>1, <1>4, <1>5, <1>6, <1>7, OwnStep

(* Every step keeps the invariant. *)
LEMMA OrderStep == OrderInv /\ [Next]_vars => OrderInv'
<1> SUFFICES ASSUME OrderInv, [Next]_vars PROVE OrderInv'
  OBVIOUS
<1>1. ReceiptInv'
  BY ReceiptStep DEF OrderInv
<1>2. CASE UNCHANGED vars
  <2>1. /\ UNCHANGED <<overlap, pc, job, poStatus, lines, free, received>>
        /\ UNCHANGED <<po, poMem, lineMem, entries, stocked, lost>>
    BY <1>2 DEF vars, inventory, locals, orders, poLocals
  <2>2. OrderTypes' /\ Alone' /\ \A h \in Handlers : PlaceInv(h)'
    BY <2>1 DEF OrderInv, OrderTypes, Alone, PlaceInv, AtReceipt
  <2>3. /\ \A p \in PurchaseOrders : Agrees(poStatus[p], p)' <=> Agrees(poStatus[p], p)
        /\ \A h \in Handlers : CopyInv(h)' <=> CopyInv(h)
    BY <2>1 DEF Agrees, CopyInv, AtReceipt
  <2>4. LedgerInv' <=> LedgerInv
    BY <2>1 DEF LedgerInv, Owes, OwedLine, OwedQuantity
  <2> QED
    BY <1>1, <2>1, <2>2, <2>3, <2>4 DEF OrderInv
<1>3. CASE StockStep
  BY <1>1, <1>3, StockShape, QuietStep, BookingStep, EndingStep
<1>4. ASSUME NEW h \in Handlers,
             \/ Turned(h) \/ Stop(h) \/ SaveStatus(h) \/ ReceiveLines(h) \/ ReceiveLine(h)
             \/ ReceiveStock(h) \/ ReceiveUnstocked(h) \/ ReceiveEvent(h)
      PROVE  OrderInv'
  <2>1. CASE Turned(h)
    BY <1>2, <2>1 DEF Turned
  <2> QED
    BY <1>1, <1>4, <2>1, StopStep, SaveStep, LinesLoaded, ReceiveLineKeeps, StockBegun, StockLost, EventStep
<1>5. ASSUME NEW h \in Handlers, NEW p \in PurchaseOrders,
             \/ \E is \in SUBSET Items, zero \in BOOLEAN : CreatePurchaseOrder(h, p, is, zero)
             \/ \E e \in {"submit", "approve", "cancel"} : FireLoad(h, p, e)
             \/ \E named \in Receipts : ReceiveLoad(h, p, named)
      PROVE  OrderInv'
  BY <1>1, <1>5, CreateStep, FireLoadStep, ReceiveLoadKeeps
<1> QED
  BY <1>2, <1>3, <1>4, <1>5 DEF Next

(* ReceiptsSound: orders, lines and the copies of a receipt keep their      *)
(* types, however requests interleave, fail and stop.  Requests that take   *)
(* turns keep an order's status in step with its lines, received only when  *)
(* all of them are and nothing received before the approval, wherever a     *)
(* receipt stops; and between two of them the ledger has booked what the    *)
(* lines have received, unless an adjustment failed                         *)
(* (purchaseOrder.go:387-500). *)
THEOREM ReceiptsKept == Spec => []ReceiptsSound
<1>1. OrderInv => TypeOK
  <2> SUFFICES ASSUME OrderInv PROVE TypeOK
    OBVIOUS
  <2>1. /\ received \in [PurchaseOrders -> [Items -> Nat]]
        /\ lineMem \in [Handlers -> [Items -> Nat]]
    BY DEF OrderInv, ReceiptInv, ReceiptType
  <2>2. poMem \in [Handlers -> PurchaseOrderFSM.states \cup {"absent"}]
    BY DEF OrderInv, OrderTypes
  <2>3. \A h \in Handlers :
          /\ po[h] \in PurchaseOrders \cup {NoOrder}
          /\ Len(entries[h]) <= MaxEntries
          /\ pc[h] \in {"save", "lines", "receive", "stock"} => po[h] # NoOrder
    BY DEF OrderInv, PlaceInv, AtReceipt
  <2> QED
    BY <2>1, <2>2, <2>3 DEF OrderInv, OrderTypes, TypeOK
<1>2. OrderInv => SerialStatusMatchesLines
  BY DEF OrderInv, Agrees, Open, SerialStatusMatchesLines
<1>3. OrderInv => SerialReceivedIsStocked
  BY DEF OrderInv, LedgerInv, Owes, SerialReceivedIsStocked
<1>4. OrderInv => ReceiptsSound
  BY <1>1, <1>2, <1>3 DEF ReceiptsSound
<1> QED
  BY <1>4, OrderInit, OrderStep, PTL DEF Spec
=============================================================================
