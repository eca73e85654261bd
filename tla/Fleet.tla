-------------------------------- MODULE Fleet --------------------------------
(***************************************************************************)
(* A slice of machines of one domain definition, driven by BatchSend of    *)
(* backend/utils/FSM.go (847-870).  The walk visits every definition, so   *)
(* that what DomainFSMs declares is checked on the states machines reach.  *)
(***************************************************************************)
EXTENDS DomainFSMs, FiniteSets

CONSTANTS Names,   \* the definitions to walk: a subset of DOMAIN Machines
          Size     \* machines in the slice

(* What the constants must be. *)
FleetAssumption ==
    /\ Names \subseteq DOMAIN Machines
    /\ Size \in Nat \ {0}

VARIABLES
    name,     \* the definition all machines of the slice share
    states,   \* State() of each machine
    event,    \* the event of the last call
    results   \* its BatchResults; empty before the first call

vars == <<name, states, event, results>>

Slots == 1..Size
Def == Machines[name]
EventsOf(fsm) == {t[2] : t \in fsm.trans}

Init ==
    /\ name \in Names
    /\ states = [i \in Slots |-> Def.initial]
    /\ event = "none"
    /\ results = << >>

(* Guards look at the entity and the envelope: any verdict is possible on a *)
(* transition that carries one. *)
Guarded(s, e) == CanTransition(Def.trans, s, e) /\ Lookup(Def.trans, s, e) \in Def.guarded

(* The error of Send (643-767) in state s. *)
Err(s, e, verdict) ==
    IF s \in Def.terminal THEN "ErrTerminalState"
    ELSE IF ~CanTransition(Def.trans, s, e) THEN "ErrInvalidTransition"
    ELSE IF Guarded(s, e) /\ ~verdict THEN "ErrGuardRejected"
    ELSE "nil"

(* One machine of the loop: Send, then State() again. *)
Sent(s, e, verdict) ==
    LET err == Err(s, e, verdict)
    IN  [from |-> s, err |-> err, to |-> IF err = "nil" THEN Target(Def, s, e) ELSE s]

(* Mutant: the loop stops at the first error. *)
Results_StopAtError(e, verdicts) ==
    [i \in Slots |->
        IF \A j \in 1..(i - 1) : Err(states[j], e, verdicts[j]) = "nil"
        THEN Sent(states[i], e, verdicts[i])
        ELSE [from |-> states[i], err |-> "skipped", to |-> states[i]]]

(* The loop never stops: every machine is attempted. *)
Results(e, verdicts) == [i \in Slots |-> Sent(states[i], e, verdicts[i])]

BatchSend(e) ==
    \E verdicts \in [Slots -> BOOLEAN] :
        /\ results' = Results(e, verdicts)
        /\ states' = [i \in Slots |-> Results(e, verdicts)[i].to]
        /\ event' = e
        /\ UNCHANGED name

Next == \E e \in EventsOf(Def) : BatchSend(e)

Spec == Init /\ [][Next]_vars

-----------------------------------------------------------------------------

(* Type invariant of the slice and its last results. *)
TypeOK ==
    /\ name \in Names
    /\ event \in EventsOf(Def) \cup {"none"}
    /\ \A i \in Slots : states[i] \in Def.states
    /\ \A i \in DOMAIN results :
         /\ {results[i].from, results[i].to} \subseteq Def.states
         /\ results[i].err \in {"nil", "ErrTerminalState", "ErrInvalidTransition",
                                "ErrGuardRejected"}

(* Every definition passes MustCompile, or the package would panic at        *)
(* start-up (FSM.go:453-461): checked here on the tables themselves. *)
DefinitionsCompile ==
    \A n \in Names :
        Compile(Machines[n].states, Machines[n].trans, Machines[n].terminal)

(* No machine is ever stranded: from every state a machine of the slice     *)
(* reaches, some sequence of registered events leads to a terminal state, so *)
(* an entity can always be brought to an end (FSM.go:937-2277).              *)
Successors(S) == S \cup {t[3] : t \in {u \in Def.trans : u[1] \in S}}

ReachIn[n \in Nat] ==
    IF n = 0 THEN [s \in Def.states |-> {s}]
    ELSE [s \in Def.states |-> Successors(ReachIn[n - 1][s])]

NoneStranded ==
    \A i \in Slots :
        ReachIn[Cardinality(Def.states)][states[i]] \cap Def.terminal # {}

(* A machine that rejects the event does not keep the others from           *)
(* transitioning, wherever it stands in the slice: every machine with a     *)
(* transition for the event moves along it unless its own guard objects,    *)
(* and every other one stays where it is (FSM.go:844-870). *)
NoneLeftBehind ==
    \A i \in DOMAIN results :
        LET r == results[i] IN
        /\ r.err = "nil" => <<r.from, event, r.to>> \in Def.trans
        /\ r.err # "nil" => r.to = r.from
        /\ Can(Def, r.from, event) /\ ~Guarded(r.from, event) => r.err = "nil"

FleetSound == TypeOK /\ DefinitionsCompile /\ NoneStranded /\ NoneLeftBehind
=============================================================================
