--------------------------------- MODULE MCKot ---------------------------------
(* Small instances of Kot. *)
EXTENDS Kot, TLC

Perms == Permutations(Handlers) \cup Permutations(Kots) \cup Permutations(Items)
=============================================================================
