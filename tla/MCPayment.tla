------------------------------ MODULE MCPayment ------------------------------
(* Small instances of Payment. *)
EXTENDS Payment, TLC

Perms == Permutations(Handlers) \cup Permutations(Records)
=============================================================================
