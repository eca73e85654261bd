----------------------------- MODULE StaleRegister -----------------------------
(***************************************************************************)
(* What a cache with bounded lifetimes promises: every answer is a value   *)
(* the database has held within the last MaxStale ticks.  Nothing is said  *)
(* of layers, keys or invalidation.                                        *)
(***************************************************************************)
EXTENDS Integers, Sequences

CONSTANTS Values, MaxStale, NoAnswer

VARIABLES
    value,     \* what the database holds
    past,      \* the values it has held, tick by tick
    answer     \* the answer a read gives in this step

register == <<value, past, answer>>

Clock == Len(past)

Init ==
    /\ value \in Values
    /\ past = <<{value}>>
    /\ answer = NoAnswer

Write ==
    /\ value' \in Values
    /\ past' = [past EXCEPT ![Clock] = @ \cup {value'}]
    /\ answer' = NoAnswer

Read ==
    /\ \E t \in 1..Clock : t >= Clock - MaxStale /\ answer' \in past[t]
    /\ UNCHANGED <<value, past>>

Pause ==
    /\ answer' = NoAnswer
    /\ UNCHANGED <<value, past>>

Tick ==
    /\ past' = Append(past, {value})
    /\ answer' = NoAnswer
    /\ UNCHANGED value

Next == Write \/ Read \/ Pause \/ Tick

Spec == Init /\ [][Next]_register
=============================================================================
