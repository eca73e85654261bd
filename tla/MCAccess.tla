------------------------------- MODULE MCAccess -------------------------------
(***************************************************************************)
(* A small instance of Access.                                              *)
(***************************************************************************)
EXTENDS Access, TLC

CONSTANTS h1, h2, r1, r2, r3, a1, a2, p1, p2

TwoPods == h1 :> 1 @@ h2 :> 2

Symmetry == Permutations({r1, r2, r3}) \cup Permutations({a1, a2}) \cup Permutations({p1, p2})

(* Mobile sessions live longer than the default ones; requests that take    *)
(* turns are one more than those that overlap. *)
NoRoleTtl == <<>>
MobileLonger == [mobile |-> [access |-> 2, refresh |-> 3]]
DefaultLifetimes == [access |-> 1, refresh |-> 2]
RequestsTried == [o \in BOOLEAN |-> IF o THEN 2 ELSE 3]
=============================================================================
