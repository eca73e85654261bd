------------------------------- MODULE MCFSM -------------------------------
(***************************************************************************)
(* The engine of FSM.tla on a small definition: a cycle between two states *)
(* (so that the history overflows), and a terminal state reachable from    *)
(* both (so that a nested Send could race into it).                        *)
(***************************************************************************)
EXTENDS FSM, TLC

MCStates == {"open", "busy", "done"}
MCEvents == {"go", "back", "stop"}
MCTransitions == {<<"open", "go", "busy">>, <<"busy", "back", "open">>,
                  <<"open", "stop", "done">>, <<"busy", "stop", "done">>}
MCTerminal == {"done"}
Perms == Permutations(Threads)
=============================================================================
