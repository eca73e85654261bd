-------------------------------- MODULE MCStock --------------------------------
(***************************************************************************)
(* Small instances of PurchaseOrder (orders of two items and what receipts  *)
(* bring into stock) and of Inventory by itself (one item with its link,    *)
(* cache and alerts).  A behaviour is one of either, chosen in the initial  *)
(* state; one of the second places no order.                                *)
(***************************************************************************)
EXTENDS PurchaseOrder, TLC

CONSTANTS h1, h2, i1, i2, m1

VARIABLE part   \* "receipts" or "movements"

purchases == <<orders, poLocals, repeated, stocked, lost>>

Symmetry == Permutations({h1, h2}) \cup Permutations({i1, i2})

NoReorder == {NoPoint}

Stock == INSTANCE Inventory WITH
    Items <- {i1}, MenuItems <- {m1}, Points <- {1}, Openings <- {0, 2}, Deltas <- {-1, 1}, MaxMoves <- 3

NoPurchases ==
    /\ poStatus = [p \in PurchaseOrders |-> "absent"]
    /\ lines = [p \in PurchaseOrders |-> {}] /\ free = {}
    /\ received = [p \in PurchaseOrders |-> NoLines] /\ stocked = received
    /\ po = [h \in Handlers |-> NoOrder] /\ poMem = [h \in Handlers |-> "absent"]
    /\ lineMem = [h \in Handlers |-> NoLines] /\ entries = [h \in Handlers |-> <<>>]
    /\ repeated = FALSE /\ lost = FALSE

MCInit ==
    \/ part = "receipts" /\ Init
    \/ part = "movements" /\ Stock!InventoryInit /\ NoPurchases

MCNext ==
    \/ part = "receipts" /\ Next /\ UNCHANGED part
    \/ part = "movements" /\ Stock!InventoryNext /\ UNCHANGED <<part, purchases>>

MCSpec == MCInit /\ [][MCNext]_<<part, vars>>
=============================================================================
