---------------------------- MODULE FSMDefinition ----------------------------
(***************************************************************************)
(* A compiled definition of backend/utils/FSM.go: what                     *)
(* DefinitionBuilder.Compile accepts, and the lookups of FSMDefinition on  *)
(* a transition index given as a set of <<from, event, to>> triples.       *)
(***************************************************************************)

Undeclared(states, trans) ==
    {t \in trans : t[1] \notin states \/ t[3] \notin states}

Duplicates(trans) ==
    {t \in trans : \E u \in trans : u # t /\ u[1] = t[1] /\ u[2] = t[2]}

NonSinks(trans, terminal) == {t \in trans : t[1] \in terminal}

(* Compile succeeds when it collects no error. *)
Compile(states, trans, terminal) ==
    /\ Undeclared(states, trans) = {}
    /\ Duplicates(trans) = {}
    /\ NonSinks(trans, terminal) = {}

(* The index is keyed by (from, event). *)
CanTransition(trans, from, e) == \E t \in trans : t[1] = from /\ t[2] = e

Lookup(trans, from, e) == CHOOSE t \in trans : t[1] = from /\ t[2] = e

AllowedEvents(trans, from) == {t[2] : t \in {u \in trans : u[1] = from}}
=============================================================================
