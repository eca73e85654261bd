----------------------------- MODULE MCOrderSubmit -----------------------------
(* Small instances of OrderSubmit. *)
EXTENDS OrderSubmit, TLC

Perms == Permutations(Calls) \cup Permutations(Keys)
=============================================================================
