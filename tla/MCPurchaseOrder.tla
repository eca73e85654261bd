---------------------------- MODULE MCPurchaseOrder ----------------------------
(* Small instances of PurchaseOrder. *)
EXTENDS PurchaseOrder, TLC

Perms == Permutations(Handlers) \cup Permutations(Items)

MCPoints == {NoPoint}
=============================================================================
