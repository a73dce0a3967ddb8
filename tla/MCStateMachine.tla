----------------------------- MODULE MCStateMachine ----------------------------
(* StateMachine on a small map: "up" has two ways to go, "down" has none,  *)
(* so that a predicate is passed over, a path branches and a path ends;    *)
(* and, for liveness, on one state that leads to itself.                   *)
EXTENDS StateMachine, TLC

(* Workers are interchangeable: for the safety run.                        *)
WorkerSymmetry == Permutations(Workers)

MCStates == {"up", "down"}

MCLoopStates == {"up"}

MCLoop == [n \in MCLoopStates |-> <<"up">>]

MCTransitions == [n \in MCStates |-> IF n = "up" THEN <<"down", "up">> ELSE <<>>]

================================================================================
