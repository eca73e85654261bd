------------------------------- MODULE MCOutbox -------------------------------
(* Small instances of Outbox. *)
EXTENDS Outbox, TLC

Perms == Permutations(Pods) \cup Permutations(Orders)
=============================================================================
