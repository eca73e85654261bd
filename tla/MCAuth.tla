-------------------------------- MODULE MCAuth --------------------------------
(* The smallest instance of Auth: one login. *)
EXTENDS Auth, TLC

NoRoles == <<>>
OneTick == [access |-> 1, refresh |-> 2]
OneRequest == [o \in BOOLEAN |-> 1]
=============================================================================
