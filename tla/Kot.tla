---------------------------------- MODULE Kot ----------------------------------
(***************************************************************************)
(* KOTService (services/business/Kot.go): the life of kitchen order        *)
(* tickets and of their items, and the order they prepare.  KOTs are also  *)
(* created by the outbox relay's KOTNotifier (Order.go:217).               *)
(*                                                                         *)
(* As in Payment, a request works on the copies of the rows it has loaded, *)
(* fires the machines on the copies, and saves by primary key.             *)
(***************************************************************************)
EXTENDS DomainFSMs, FiniteSets

CONSTANTS
    Handlers,     \* goroutines: requests and the relay
    Kots,         \* kots rows that can be created
    Items,        \* item positions of a KOT
    Orders,
    MaxUpdates,   \* bound on item updates
    OrderEvents,  \* events that other code fires on an order
    MaxFaults,    \* bound on goroutines whose database call fails
    None

ASSUME KotAssumption ==
    /\ None \notin Kots \cup Orders
    /\ MaxUpdates \in Nat /\ MaxFaults \in Nat
    /\ OrderEvents \subseteq {"confirm", "ready", "cancel", "refund"}

VARIABLES
    status,       \* status column of each KOT, "absent" before Create
    orderOf,      \* order_id column
    relayed,      \* KOTs with the number of their order's outbox payload
    urgent,       \* KOTs with priority urgent
    item,         \* status of each item of each KOT
    orderStatus,  \* orders.order_status
    pc,
    kot, mem,     \* the KOT a handler works on and the status in its copy
    ord, ordMem,  \* the order it works on and the status in its copy
    autos,        \* tryAutoCompleteKOT goroutines: <<KOT, update, step>>, those
                  \* that gave up on a database error in step failed
    updates

rows == <<status, orderOf, relayed, urgent, item>>
locals == <<kot, mem, ord, ordMem>>
vars == <<rows, orderStatus, pc, locals, autos, updates>>

ItemStatuses == {"pending", "preparing", "ready", "served", "cancelled"}
ItemDone == {"ready", "served", "cancelled"}
Exists(k) == status[k] # "absent"
KotsOf(o) == {k \in Kots : Exists(k) /\ orderOf[k] = o}
AllItemsDone(k) == \A i \in Items : item[k][i] \in ItemDone

Init ==
    /\ status = [k \in Kots |-> "absent"]
    /\ orderOf = [k \in Kots |-> None]
    /\ relayed = {} /\ urgent = {}
    /\ item = [k \in Kots |-> [i \in Items |-> "pending"]]
    /\ orderStatus \in [Orders -> {"pending", "confirmed"}]
    /\ pc = [h \in Handlers |-> "idle"]
    /\ kot = [h \in Handlers |-> None]
    /\ mem = [h \in Handlers |-> "absent"]
    /\ ord = [h \in Handlers |-> None]
    /\ ordMem = [h \in Handlers |-> "none"]
    /\ autos = {}
    /\ updates = 0

Done(h) ==
    /\ pc' = [pc EXCEPT ![h] = "idle"]
    /\ kot' = [kot EXCEPT ![h] = None]
    /\ mem' = [mem EXCEPT ![h] = "absent"]
    /\ ord' = [ord EXCEPT ![h] = None]
    /\ ordMem' = [ordMem EXCEPT ![h] = "none"]

Goto(h, step) == pc' = [pc EXCEPT ![h] = step]

-----------------------------------------------------------------------------
(* Creation. *)

(* CreateKOT, step 1: the order is loaded. *)
CreateLoad(h, o) ==
    /\ pc[h] = "idle"
    /\ ord' = [ord EXCEPT ![h] = o]
    /\ ordMem' = [ordMem EXCEPT ![h] = orderStatus[o]]
    /\ Goto(h, "dedup")
    /\ UNCHANGED <<rows, orderStatus, kot, mem, autos, updates>>

(* Step 2: ErrKOTAlreadyExists. *)
CreateDedup(h) ==
    /\ pc[h] = "dedup"
    /\ IF KotsOf(ord[h]) # {}
       THEN Done(h)
       ELSE Goto(h, "persist") /\ UNCHANGED locals
    /\ UNCHANGED <<rows, orderStatus, autos, updates>>

(* INSERT of a KOT in status sent with pending items. *)
Insert(k, o) ==
    /\ ~Exists(k)
    /\ status' = [status EXCEPT ![k] = "sent"]
    /\ orderOf' = [orderOf EXCEPT ![k] = o]

(* Step 6: KOT, items and, if the copy of the order accepts prepare, the    *)
(* order's new status; or an error (the transaction's, or a number that is  *)
(* taken), which leaves nothing behind. *)
CreatePersist(h) ==
    /\ pc[h] = "persist"
    /\ \/ \E k \in Kots, u \in BOOLEAN :
            /\ Insert(k, ord[h])
            /\ urgent' = IF u THEN urgent \cup {k} ELSE urgent
            /\ orderStatus' =
                 IF Can(OrderFSM, ordMem[h], "prepare")
                 THEN [orderStatus EXCEPT ![ord[h]] = Target(OrderFSM, ordMem[h], "prepare")]
                 ELSE orderStatus
            /\ UNCHANGED <<relayed, item>>
       \/ UNCHANGED <<rows, orderStatus>>
    /\ Done(h)
    /\ UNCHANGED <<autos, updates>>

(* KOTNotifier.Notify: look for a KOT of the order, then create one, in two *)
(* steps; its number comes from the event. *)
NotifyLookup(h, o) ==
    /\ pc[h] = "idle"
    /\ KotsOf(o) = {}
    /\ ord' = [ord EXCEPT ![h] = o]
    /\ Goto(h, "notify")
    /\ UNCHANGED <<rows, orderStatus, kot, mem, ordMem, autos, updates>>

NotifyCreate(h) ==
    /\ pc[h] = "notify"
    /\ \/ \E k \in Kots :
            /\ KotsOf(ord[h]) \cap relayed = {}
            /\ Insert(k, ord[h])
            /\ relayed' = relayed \cup {k}
            /\ UNCHANGED <<urgent, item>>
       \/ UNCHANGED rows
    /\ Done(h)
    /\ UNCHANGED <<orderStatus, autos, updates>>

-----------------------------------------------------------------------------
(* StartKOT, CompleteKOT and CancelKOT. *)

(* The machine restored from the row accepts the event.  The envelope has   *)
(* no metadata, so force_cancel is never given. *)
Accepts(k, e) ==
    /\ Can(KOTFSM, status[k], e)
    /\ ~(e = "cancel" /\ status[k] = "in_progress" /\ k \in urgent)

(* Load the KOT, fire the event on the copy.  Cancelling in progress takes  *)
(* a manager. *)
FireLoad(h, k, e, manager) ==
    /\ pc[h] = "idle" /\ Exists(k)
    /\ e = "cancel" /\ status[k] = "in_progress" => manager
    /\ Accepts(k, e)
    /\ kot' = [kot EXCEPT ![h] = k]
    /\ mem' = [mem EXCEPT ![h] = Target(KOTFSM, status[k], e)]
    /\ Goto(h, "save")
    /\ UNCHANGED <<rows, orderStatus, ord, ordMem, autos, updates>>

(* The UPDATE by primary key; it may fail. *)
FireSave(h) ==
    /\ pc[h] = "save"
    /\ \/ status' = [status EXCEPT ![kot[h]] = mem[h]]
       \/ UNCHANGED status
    /\ Done(h)
    /\ UNCHANGED <<orderOf, relayed, urgent, item, orderStatus, autos, updates>>

(* UpdateKOT: load, refuse a terminal KOT, then write the new priority (the *)
(* chef's assignment is left out). *)
PatchLoad(h, k) ==
    /\ pc[h] = "idle" /\ Exists(k)
    /\ status[k] \notin KOTFSM.terminal
    /\ kot' = [kot EXCEPT ![h] = k]
    /\ Goto(h, "patch")
    /\ UNCHANGED <<rows, orderStatus, mem, ord, ordMem, autos, updates>>

PatchSave(h) ==
    /\ pc[h] = "patch"
    /\ urgent' \in {urgent \cup {kot[h]}, urgent \ {kot[h]}}
    /\ Done(h)
    /\ UNCHANGED <<status, orderOf, relayed, item, orderStatus, autos, updates>>

-----------------------------------------------------------------------------
(* Items. *)

(* UpdateKOTItemStatus: any status at any time; then the goroutine. *)
UpdateItem(k, i, s) ==
    /\ Exists(k) /\ updates < MaxUpdates
    /\ item' = [item EXCEPT ![k][i] = s]
    /\ updates' = updates + 1
    /\ autos' = autos \cup {<<k, updates', "count">>}
    /\ UNCHANGED <<status, orderOf, relayed, urgent, orderStatus, pc, locals>>

AutoStep(g, step) == autos' = (autos \ {g}) \cup {<<g[1], g[2], step>>}
End(g) == autos' = autos \ {g}

(* A database call fails: the goroutine returns and nobody hears of it. *)
AutoFails(g) ==
    /\ Cardinality({x \in autos : x[3] = "failed"}) < MaxFaults
    /\ AutoStep(g, "failed")
    /\ UNCHANGED rows

(* Mutant: the goroutine does not look whether the KOT is in progress. *)
AutoLoad_AnyStatus(g) ==
    /\ g[3] = "load"
    /\ \/ AutoStep(g, "save") /\ UNCHANGED rows
       \/ AutoFails(g)
    /\ UNCHANGED <<orderStatus, pc, locals, updates>>

(* Mutant: a served item is counted as one still to be prepared. *)
AutoCount_ServedNotDone(g) ==
    /\ g[3] = "count"
    /\ \/ /\ IF \A i \in Items : item[g[1]][i] \in {"ready", "cancelled"}
             THEN AutoStep(g, "load") ELSE End(g)
          /\ UNCHANGED rows
       \/ AutoFails(g)
    /\ UNCHANGED <<orderStatus, pc, locals, updates>>

(* tryAutoCompleteKOT: count the items that are not done, load the KOT if   *)
(* there are none, fire complete if it is in progress, save.  An error of   *)
(* any of the three calls ends it in silence. *)
AutoCount(g) ==
    /\ g[3] = "count"
    /\ \/ /\ IF AllItemsDone(g[1]) THEN AutoStep(g, "load") ELSE End(g)
          /\ UNCHANGED rows
       \/ AutoFails(g)
    /\ UNCHANGED <<orderStatus, pc, locals, updates>>

AutoLoad(g) ==
    /\ g[3] = "load"
    /\ \/ /\ IF status[g[1]] = "in_progress" THEN AutoStep(g, "save") ELSE End(g)
          /\ UNCHANGED rows
       \/ AutoFails(g)
    /\ UNCHANGED <<orderStatus, pc, locals, updates>>

AutoSave(g) ==
    /\ g[3] = "save"
    /\ \/ /\ status' = [status EXCEPT ![g[1]] = "completed"]
          /\ End(g)
          /\ UNCHANGED <<orderOf, relayed, urgent, item>>
       \/ AutoFails(g)
    /\ UNCHANGED <<orderStatus, pc, locals, updates>>

AutoComplete == \E g \in autos : AutoCount(g) \/ AutoLoad(g) \/ AutoSave(g)

-----------------------------------------------------------------------------
(* Nothing in services/ fires confirm, ready, cancel or refund on an order; *)
(* other code may, along OrderFSM. *)
OtherOrderEvent(o, e) ==
    /\ Can(OrderFSM, orderStatus[o], e)
    /\ orderStatus' = [orderStatus EXCEPT ![o] = Target(OrderFSM, @, e)]
    /\ UNCHANGED <<rows, pc, locals, autos, updates>>

(* A request that is refused: an event the machine rejects, a KOT that is   *)
(* terminal or exists already. *)
Refused(h) == pc[h] = "idle" /\ UNCHANGED vars

Continue(h) ==
    CreateDedup(h) \/ CreatePersist(h) \/ NotifyCreate(h) \/ FireSave(h) \/ PatchSave(h)

Next ==
    \/ \E h \in Handlers :
         \/ Continue(h) \/ Refused(h)
         \/ \E o \in Orders : CreateLoad(h, o) \/ NotifyLookup(h, o)
         \/ \E k \in Kots : PatchLoad(h, k)
         \/ \E k \in Kots, e \in {"start", "complete", "cancel"}, m \in BOOLEAN :
              FireLoad(h, k, e, m)
    \/ AutoComplete
    \/ \E k \in Kots, i \in Items, s \in ItemStatuses : UpdateItem(k, i, s)
    \/ \E o \in Orders, e \in OrderEvents : OtherOrderEvent(o, e)

Spec == Init /\ [][Next]_vars

(* Requests and goroutines run to their end. *)
FairSpec ==
    /\ Spec
    /\ \A h \in Handlers : WF_vars(Continue(h))
    /\ WF_vars(AutoComplete)

-----------------------------------------------------------------------------
(* Properties. *)

Statuses == KOTFSM.states \cup {"absent"}

(* Type invariant: rows, copies and goroutines. *)
TypeOK ==
    /\ status \in [Kots -> Statuses]
    /\ orderOf \in [Kots -> Orders \cup {None}]
    /\ relayed \subseteq Kots /\ urgent \subseteq Kots
    /\ item \in [Kots -> [Items -> ItemStatuses]]
    /\ orderStatus \in [Orders -> OrderFSM.states]
    /\ pc \in [Handlers -> {"idle", "dedup", "persist", "notify", "save", "patch"}]
    /\ kot \in [Handlers -> Kots \cup {None}]
    /\ mem \in [Handlers -> Statuses]
    /\ ord \in [Handlers -> Orders \cup {None}]
    /\ ordMem \in [Handlers -> OrderFSM.states \cup {"none"}]
    /\ autos \subseteq Kots \X (1..MaxUpdates) \X {"count", "load", "save", "failed"}
    /\ updates \in 0..MaxUpdates

(* A ticket is not completed before the kitchen has started it, and never   *)
(* goes back to sent, although stale copies are saved in any order and the  *)
(* goroutines complete tickets on their own (Kot.go:339-387, 556-578).      *)
NoStartSkipped ==
    [][\A k \in Kots :
         /\ status[k] = "sent" => status'[k] # "completed"
         /\ Exists(k) /\ status[k] # "sent" => status'[k] # "sent"]_vars

(* "KOTs are keyed by (OrderID, RestaurantID).  A second CreateKOT call for *)
(* the same order returns the existing KOT rather than creating a           *)
(* duplicate" (Kot.go:30-32). *)
OneKOTPerOrder == \A o \in Orders : Cardinality(KotsOf(o)) <= 1

(* "Auto-complete KOT when all items reach terminal state" (Kot.go:18): a   *)
(* goroutine that is about to look at a ticket in progress whose items are  *)
(* all done sees it completed, whatever other goroutines and requests do    *)
(* meanwhile, unless a database call of its own fails (Kot.go:548-578).  A  *)
(* failure of another update's goroutine is no excuse.                      *)
LastItemCompletes ==
    \A k \in Kots, n \in 1..MaxUpdates :
        status[k] = "in_progress" /\ AllItemsDone(k) /\ <<k, n, "count">> \in autos
            ~> status[k] # "in_progress" \/ ~AllItemsDone(k) \/ <<k, n, "failed">> \in autos
=============================================================================
